---- MODULE Spec2Model ----
(***************************************************************************)
(* MetroCity: the city (stations, lines, trains, passengers), the line     *)
(* topology as a doubly linked list of station nodes, the navigation map   *)
(* (Floyd-Warshall over the line edges), the train state machine and the   *)
(* passenger decision procedure, modelled from City.py, Line.py, Train.py, *)
(* Passenger.py, Station.py and Simulation.py.                             *)
(*                                                                         *)
(* Python lists are TLA+ sequences (index 1 is Python index 0).  Station   *)
(* and train idx values stay zero-based as in the code.  Objects that the  *)
(* code compares by identity (station nodes, passengers) live in heaps     *)
(* keyed by an object id.  A Python exception that nothing catches sets    *)
(* aborted; nothing runs afterwards.                                       *)
(***************************************************************************)
EXTENDS Integers, Sequences, FiniteSets, TLC

VARIABLES
    time,               \* City.time
    stations,           \* City.stations: sequence of station records
    lines,              \* City.lines: sequence of line records
    trains,             \* City.trains: sequence of train records
    nodes,              \* the Station_Node objects, by object id
    passengers,         \* the Passenger objects, by object id
    free_wagons,        \* City.free_wagons
    distmap,            \* City.distmap
    navmap,             \* City.navmap
    arrived_passengers, \* City.arrived_passengers
    aborted,            \* an uncaught exception ended the program
    lastop              \* the operation that produced this state: its name, the
                        \* line or train it was called on, what it returned, and
                        \* whether it rebuilt the navigation map

vars == <<time, stations, lines, trains, nodes, passengers, free_wagons,
          distmap, navmap, arrived_passengers, aborted, lastop>>

---------------------------------------------------------------------------
(* Bounds of the model: stations, lines and station nodes of the          *)
(* navigation-map specification; stations and trains of the train         *)
(* specification.                                                         *)
NavStations == 3
NavLines == 2
NavNodes == 4
TrainStations == 4
TrainLines == 1
TrainTrains == 1
RideStations == 2
RideTicks == 3
RideBurst == 7
RidePassengers == 8
RideLines == 1
RideTrains == 1
RideWagons == 2
WagonTrains == 2
LimitStations == 1
CmdStations == 2
CmdLines == 2
CmdTrains == 1
InsertStations == 3
InsertLines == 1
RemoveStations == 3
RemoveLines == 1
RemoveNodes == 3
FailStations == 2
FailLines == 1
FailTrains == 1
FailWagons == 2
BatchStations == 2
BatchLines == 1
BatchLen == 3
NoSuchId == 9
SteadyStations == 2
SteadyLines == 1
SteadyTrains == 1
SteadyTicks == 3
SteadyNodes == 3
LoopStations == 3
LoopLines == 1
LoopTrains == 1
LoopTicks == 2
LoopNodes == 3
SeatStations == 3
SeatLines == 1
SeatTrains == 1
SeatTicks == 4
SeatBurst == 5
SeatPassengers == 7
ArriveStations == 2
ArriveLines == 1
ArriveTrains == 1
ArriveTicks == 4
ArriveBurst == 7
ArrivePassengers == 8
LiveStations == 2
LiveLines == 1
LiveTrains == 1
LiveTicks == 8
LivePassengers == 1
LivePatience == 6
SpawnStations == 3
SpawnDraws == 2
SpawnPassengers == 2
RunStations == 2
RunIters == 27
RunPassengers == 1
RebuildStations == 3
RebuildLines == 1
TickStations == 2
TickTrains == 1
TickQuiet == 48
TickTicks == 52
TickPassengers == 2
BoardStations == 2
BoardTrains == 2
BoardBurst == 6
BoardPassengers == 7
AlightStations == 3
AlightTrains == 2
AlightPassengers == 1
OrderStations == 3
ListStations == 4
ListLines == 1

(* Program constants *)
max_trains == 3
max_lines == 3
AT_STATION == 0
LEFT_STATION == 1
FOREWARD == 1
BACKWARD == -1
MAX_WAGONS == 5
WAGON_CAPACITY == 6
Inf == 1000
NoLine == 0
NoStation == -1
NEW_STATION_INTERVAL == 50
Absent == -99
MAX_WAITING_TIME == 25

---------------------------------------------------------------------------
(* Object references.  A link of a station node holds None, a node or,     *)
(* after make_circular, a Station.                                         *)
None == <<"None", 0>>
NodeRef(n) == <<"Node", n>>
StationRef(s) == <<"Station", s>>
TrainRef(t) == <<"Train", t>>
Unset == <<"Unset", 0>>

IsNode(r) == r[1] = "Node"
IsStation(r) == r[1] = "Station"
IsTrain(r) == r[1] = "Train"

(* The city as one value; the operations below map a city to a city. *)
City ==
    [time |-> time, stations |-> stations, lines |-> lines, trains |-> trains,
     nodes |-> nodes, passengers |-> passengers, free_wagons |-> free_wagons,
     distmap |-> distmap, navmap |-> navmap,
     arrived_passengers |-> arrived_passengers, aborted |-> aborted,
     rebuilt |-> FALSE]

Ret(c, r) == [c |-> c, r |-> r]
Raise(c) == [c |-> [c EXCEPT !.aborted = TRUE], r |-> "exception"]

(* Python list helpers *)
IndexOf(s, x) ==
    IF \E i \in 1..Len(s) : s[i] = x
    THEN CHOOSE i \in 1..Len(s) : s[i] = x /\ \A j \in 1..(i-1) : s[j] # x
    ELSE 0
ListRemove(s, x) ==
    LET i == IndexOf(s, x) IN SubSeq(s, 1, i-1) \o SubSeq(s, i+1, Len(s))
ListInsert(s, i, x) == SubSeq(s, 1, i-1) \o <<x>> \o SubSeq(s, i, Len(s))
Contains(s, x) == \E i \in 1..Len(s) : s[i] = x

---------------------------------------------------------------------------
(* Station_Node objects and attribute access *)
NewStation == [passengers |-> <<>>, previous_node |-> Unset, next_node |-> Unset]
NewLine(color) == [color |-> color, station_nodes |-> <<>>]
Station_Node(station, previous_node, next_node) ==
    [station |-> station, previous_node |-> previous_node, next_node |-> next_node]

FreshNode(c) == CHOOSE n \in 1..(Cardinality(DOMAIN c.nodes) + 1) : n \notin DOMAIN c.nodes

(* obj.previous_node / obj.next_node exists: always on a node, on a Station *)
(* only once an assignment created the attribute, never on None.           *)
HasLink(c, ref, attr) ==
    \/ IsNode(ref)
    \/ IsStation(ref) /\ c.stations[ref[2] + 1][attr] # Unset
GetLink(c, ref, attr) ==
    IF IsNode(ref) THEN c.nodes[ref[2]][attr] ELSE c.stations[ref[2] + 1][attr]
(* obj.attr = val, for obj a node or a Station *)
SetLink(c, ref, attr, val) ==
    IF IsNode(ref)
    THEN [c EXCEPT !.nodes[ref[2]] = [@ EXCEPT ![attr] = val]]
    ELSE [c EXCEPT !.stations[ref[2] + 1] = [@ EXCEPT ![attr] = val]]

---------------------------------------------------------------------------
(* Line *)
StationIdxs(c, l) ==
    [i \in 1..Len(c.lines[l].station_nodes) |-> c.nodes[c.lines[l].station_nodes[i]].station]

is_circular(c, l) ==
    LET sn == c.lines[l].station_nodes IN
    IF Len(sn) <= 1 THEN FALSE
    ELSE c.nodes[sn[Len(sn)]].next_node = NodeRef(sn[1])

LineTrains(c, l) == {t \in 1..Len(c.trains) : c.trains[t].line = l}

find_node(c, l, station) ==
    LET sn == c.lines[l].station_nodes
        hits == {i \in 1..Len(sn) : c.nodes[sn[i]].station = station}
    IN IF hits = {} THEN None
       ELSE NodeRef(sn[CHOOSE i \in hits : \A j \in hits : i <= j])

(* add_station that, at the beginning of the line, does not make the new *)
(* node the previous node of the node that was first                     *)
add_station_NoBackLink(c, l, station, position) ==
    LET sn == c.lines[l].station_nodes
        n == Len(sn)
        new == FreshNode(c)
        alloc(prev, next) ==
            [c EXCEPT !.nodes = (new :> Station_Node(station, prev, next)) @@ @]
    IN
    IF n = 0 /\ position <= 0 THEN
        Ret([alloc(None, None) EXCEPT !.lines[l].station_nodes = <<new>>], "True")
    ELSE IF \E i \in 1..n : c.nodes[sn[i]].station = station THEN Ret(c, "False")
    ELSE IF position < -2 \/ position > n THEN Ret(c, "False")
    ELSE IF position = -1 \/ position = n THEN
        Ret([SetLink(alloc(NodeRef(sn[n]), None), NodeRef(sn[n]), "next_node", NodeRef(new))
                EXCEPT !.lines[l].station_nodes = Append(sn, new)], "True")
    ELSE IF position = 0 THEN
        Ret([alloc(None, NodeRef(sn[1]))
                EXCEPT !.lines[l].station_nodes = <<new>> \o sn], "True")
    ELSE IF position = -2 /\ n < 3 THEN Raise(c)   \* station_nodes[-3]: IndexError
    ELSE
        LET at == IF position = -2 THEN n - 1 ELSE position + 1
            prev == sn[at - 1]
            next == sn[at]
            c1 == alloc(NodeRef(prev), NodeRef(next))
            c2 == SetLink(c1, NodeRef(next), "previous_node", NodeRef(new))
            c3 == SetLink(c2, NodeRef(prev), "next_node", NodeRef(new))
        IN Ret([c3 EXCEPT !.lines[l].station_nodes = ListInsert(sn, at, new)], "True")

add_station(c, l, station, position) ==
    LET sn == c.lines[l].station_nodes
        n == Len(sn)
        new == FreshNode(c)
        alloc(prev, next) ==
            [c EXCEPT !.nodes = (new :> Station_Node(station, prev, next)) @@ @]
    IN
    IF n = 0 /\ position <= 0 THEN
        Ret([alloc(None, None) EXCEPT !.lines[l].station_nodes = <<new>>], "True")
    ELSE IF \E i \in 1..n : c.nodes[sn[i]].station = station THEN Ret(c, "False")
    ELSE IF position < -2 \/ position > n THEN Ret(c, "False")
    ELSE IF position = -1 \/ position = n THEN
        Ret([SetLink(alloc(NodeRef(sn[n]), None), NodeRef(sn[n]), "next_node", NodeRef(new))
                EXCEPT !.lines[l].station_nodes = Append(sn, new)], "True")
    ELSE IF position = 0 THEN
        Ret([SetLink(alloc(None, NodeRef(sn[1])), NodeRef(sn[1]), "previous_node", NodeRef(new))
                EXCEPT !.lines[l].station_nodes = <<new>> \o sn], "True")
    ELSE IF position = -2 /\ n < 3 THEN Raise(c)   \* station_nodes[-3]: IndexError
    ELSE
        LET at == IF position = -2 THEN n - 1 ELSE position + 1
            prev == sn[at - 1]
            next == sn[at]
            c1 == alloc(NodeRef(prev), NodeRef(next))
            c2 == SetLink(c1, NodeRef(next), "previous_node", NodeRef(new))
            c3 == SetLink(c2, NodeRef(prev), "next_node", NodeRef(new))
        IN Ret([c3 EXCEPT !.lines[l].station_nodes = ListInsert(sn, at, new)], "True")

(* remove_station that takes the node off the list and leaves the links *)
remove_station_NoRelink(c, l, station) ==
    LET node == find_node(c, l, station) IN
    IF node = None THEN Ret(c, "False")
    ELSE Ret([c EXCEPT !.lines[l].station_nodes = ListRemove(@, node[2])], "True")

remove_station(c, l, station) ==
    LET node == find_node(c, l, station) IN
    IF node = None THEN Ret(c, "False")
    ELSE
        LET prev == c.nodes[node[2]].previous_node
            next == c.nodes[node[2]].next_node
            c1 == IF prev # None THEN SetLink(c, prev, "next_node", next) ELSE c
            c2 == IF next # None THEN SetLink(c1, next, "previous_node", prev) ELSE c1
        IN Ret([c2 EXCEPT !.lines[l].station_nodes = ListRemove(@, node[2])], "True")

make_circular(c, l) ==
    LET sn == c.lines[l].station_nodes
        first == sn[1]
        last == sn[Len(sn)]
        c1 == SetLink(c, NodeRef(first), "previous_node", StationRef(c.nodes[last].station))
    IN IF Len(sn) = 0 THEN Raise(c)    \* station_nodes[0]: IndexError
       ELSE Ret(SetLink(c1, NodeRef(last), "next_node", StationRef(c1.nodes[first].station)), "None")

break_circular(c, l) ==
    LET sn == c.lines[l].station_nodes
        c1 == SetLink(c, NodeRef(sn[1]), "previous_node", None)
    IN IF Len(sn) = 0 THEN Raise(c)
       ELSE Ret(SetLink(c1, NodeRef(sn[Len(sn)]), "next_node", None), "None")

(* The result of next_station is the pair (node, direction), or an        *)
(* AttributeError when a link that is None (or a Station without that     *)
(* attribute) is dereferenced.                                            *)
NextResult(node, direction) == [node |-> node, direction |-> direction, raised |-> FALSE]
NextRaised == [node |-> None, direction |-> 0, raised |-> TRUE]

(* next_station without the look-ahead that turns the train at an end *)
next_station_NoFlip(c, l, station_node, direction) ==
    LET sn == c.lines[l].station_nodes
        attr == IF direction = 1 THEN "next_node" ELSE "previous_node"
        x == c.nodes[station_node[2]][attr]
    IN
    IF ~(IsNode(station_node) /\ Contains(sn, station_node[2])) THEN NextResult(None, 0)
    ELSE IF Len(sn) = 1 THEN NextResult(station_node, direction)
    ELSE IF direction \in {1, -1} THEN
        IF ~HasLink(c, x, attr) THEN NextRaised
        ELSE NextResult(x, direction)
    ELSE NextResult(None, 0)

next_station(c, l, station_node, direction) ==
    LET sn == c.lines[l].station_nodes
        attr == IF direction = 1 THEN "next_node" ELSE "previous_node"
        x == c.nodes[station_node[2]][attr]
    IN
    IF ~(IsNode(station_node) /\ Contains(sn, station_node[2])) THEN NextResult(None, 0)
    ELSE IF Len(sn) = 1 THEN NextResult(station_node, direction)
    ELSE IF direction \in {1, -1} THEN
        IF ~HasLink(c, x, attr) THEN NextRaised
        ELSE IF GetLink(c, x, attr) = None THEN NextResult(x, -direction)
        ELSE NextResult(x, direction)
    ELSE NextResult(None, 0)

---------------------------------------------------------------------------
(* City._update_navmap *)
Plus(a, b) == IF a = Inf \/ b = Inf THEN Inf ELSE a + b

directions(c, l) ==
    IF is_circular(c, l) THEN {c.trains[t].direction : t \in LineTrains(c, l)}
    ELSE {-1, 1}

(* The matrix cells the code writes for the i-th consecutive pair of a line *)
(* (i is zero-based, as in "for i in range(len(station_idxs)-1)").          *)
EdgeCell(c, l, i, direction) ==
    IF direction = 1 THEN <<i, i + 1>> ELSE <<i + 1, i>>

LineEdges(c, l) ==
    {[cell |-> EdgeCell(c, l, i, d), option |-> <<c.lines[l].color, d>>] :
        i \in 0..(Len(c.lines[l].station_nodes) - 2), d \in directions(c, l)}

AllEdges(c) == UNION {LineEdges(c, l) : l \in 1..Len(c.lines)}

InitTables(c) ==
    LET D == 0..(Len(c.stations) - 1)
        E == AllEdges(c)
    IN [dist |-> [p \in D \X D |->
                    IF \E e \in E : e.cell = p THEN 1
                    ELSE IF p[1] = p[2] THEN 0 ELSE Inf],
        nav |-> [p \in D \X D |-> {e.option : e \in {f \in E : f.cell = p}}]]

(* The loop body with the shorter-route branch replacing the options but  *)
(* not the distance.                                                      *)
Relax_KeepsDistance(tab, k, i, j) ==
    LET via == Plus(tab.dist[i, k], tab.dist[k, j])
        nav1 == IF tab.dist[i, j] = via
                THEN [tab.nav EXCEPT ![i, j] = @ \cup tab.nav[i, k]]
                ELSE tab.nav
    IN IF tab.dist[i, j] > via
       THEN [dist |-> tab.dist, nav |-> [nav1 EXCEPT ![i, j] = nav1[i, k]]]
       ELSE [dist |-> tab.dist, nav |-> nav1]

(* One pass of the loop body for (k, i, j), in place *)
Relax(tab, k, i, j) ==
    LET via == Plus(tab.dist[i, k], tab.dist[k, j])
        nav1 == IF tab.dist[i, j] = via
                THEN [tab.nav EXCEPT ![i, j] = @ \cup tab.nav[i, k]]
                ELSE tab.nav
    IN IF tab.dist[i, j] > via
       THEN [dist |-> [tab.dist EXCEPT ![i, j] = via],
             nav |-> [nav1 EXCEPT ![i, j] = nav1[i, k]]]
       ELSE [dist |-> tab.dist, nav |-> nav1]

(* for k, i, j in itertools.product(range(n), repeat=3) *)
RECURSIVE LoopJ(_, _, _, _, _)
LoopJ(tab, n, k, i, j) ==
    IF tab.dist = <<>> \/ j >= n THEN tab ELSE LoopJ(Relax(tab, k, i, j), n, k, i, j + 1)

RECURSIVE LoopI(_, _, _, _)
LoopI(tab, n, k, i) ==
    IF tab.dist = <<>> \/ i >= n THEN tab ELSE LoopI(LoopJ(tab, n, k, i, 0), n, k, i + 1)

RECURSIVE FloydWarshall(_, _, _)
FloydWarshall(tab, n, k) ==
    IF tab.dist = <<>> \/ k >= n THEN tab ELSE FloydWarshall(LoopI(tab, n, k, 0), n, k + 1)

(* InitTables on top of the stored distances: the matrix is not made     *)
(* anew, the distance of a cell is added to the one stored in it          *)
InitTables_AddsToStored(c) ==
    LET tab == InitTables(c) IN
    [dist |-> [p \in DOMAIN tab.dist |->
                 IF c.distmap # <<>> /\ p \in DOMAIN c.distmap /\ c.distmap[p] # Inf
                 THEN Plus(c.distmap[p], tab.dist[p]) ELSE tab.dist[p]],
     nav |-> tab.nav]

(* the rebuild that does not start from a new distance matrix *)
update_navmap_AddsToStored(c) ==
    LET tab == FloydWarshall(InitTables_AddsToStored(c), Len(c.stations), 0)
    IN [c EXCEPT !.distmap = tab.dist, !.navmap = tab.nav, !.rebuilt = TRUE]

update_navmap(c) ==
    LET tab == FloydWarshall(InitTables(c), Len(c.stations), 0)
    IN [c EXCEPT !.distmap = tab.dist, !.navmap = tab.nav, !.rebuilt = TRUE]

---------------------------------------------------------------------------
(* Train.  c.trains[t] is the train with idx t - 1; its line is the index *)
(* of the line in c.lines, NoLine for None.                               *)
NewTrain ==
    [capacity |-> WAGON_CAPACITY, passengers |-> <<>>, state |-> AT_STATION,
     line |-> NoLine, direction |-> FOREWARD, station_node |-> None]

set_line(c, t, line, station, direction) ==
    IF station = NoStation THEN Raise(c)      \* line.station_node[0]: AttributeError
    ELSE IF line = NoLine THEN Raise(c)       \* None.find_node
    ELSE LET node == find_node(c, line, station) IN
         IF node = None THEN Ret(c, "False")
         ELSE Ret([c EXCEPT !.trains[t] =
                      [@ EXCEPT !.station_node = node, !.state = AT_STATION,
                                !.line = line, !.direction = direction]], "None")

(* add_wagon with the test of the wagon limit off by one *)
Train_add_wagon_PastLimit(c, t) ==
    IF c.trains[t].capacity \div WAGON_CAPACITY > MAX_WAGONS THEN Ret(c, "False")
    ELSE Ret([c EXCEPT !.trains[t].capacity = @ + WAGON_CAPACITY], "True")

Train_add_wagon(c, t) ==
    IF c.trains[t].capacity \div WAGON_CAPACITY >= MAX_WAGONS THEN Ret(c, "False")
    ELSE Ret([c EXCEPT !.trains[t].capacity = @ + WAGON_CAPACITY], "True")

(* while len(self.passengers) > self.capacity: pop and append to the station *)
RECURSIVE DropPassengers(_, _)
DropPassengers(c, t) ==
    LET tr == c.trains[t]
        n == Len(tr.passengers)
        p == tr.passengers[n]
        c1 == [c EXCEPT !.trains[t].passengers = SubSeq(@, 1, n - 1)]
    IN IF n <= tr.capacity THEN Ret(c, "True")
       ELSE IF ~IsNode(tr.station_node) THEN Raise(c1)
       ELSE DropPassengers(
                [c1 EXCEPT !.stations[c.nodes[tr.station_node[2]].station + 1].passengers =
                               Append(@, p)], t)

Train_remove_wagon(c, t) ==
    IF c.trains[t].capacity \div WAGON_CAPACITY <= 1 THEN Ret(c, "False")
    ELSE DropPassengers([c EXCEPT !.trains[t].capacity = @ - WAGON_CAPACITY], t)

(* move that takes the train to the next station from either state *)
Train_move_NoDwell(c, t) ==
    LET tr == c.trains[t]
        c1 == [c EXCEPT !.trains[t].state = AT_STATION]
        nxt == next_station(c, tr.line, tr.station_node, tr.direction)
    IN IF tr.line = NoLine THEN Raise(c1)
       ELSE IF nxt.raised THEN Raise(c1)
       ELSE Ret([c1 EXCEPT !.trains[t].station_node = nxt.node,
                           !.trains[t].direction = nxt.direction,
                           !.trains[t].state = IF tr.state = AT_STATION
                                               THEN LEFT_STATION ELSE AT_STATION], "None")

Train_move(c, t) ==
    LET tr == c.trains[t]
        c1 == [c EXCEPT !.trains[t].state = AT_STATION]
        nxt == next_station(c, tr.line, tr.station_node, tr.direction)
    IN IF tr.state = AT_STATION
       THEN Ret([c EXCEPT !.trains[t].state = LEFT_STATION], "None")
       ELSE IF tr.line = NoLine THEN Raise(c1)      \* None.next_station
       ELSE IF nxt.raised THEN Raise(c1)
       ELSE Ret([c1 EXCEPT !.trains[t].station_node = nxt.node,
                           !.trains[t].direction = nxt.direction], "None")

(* can_enter without the test of the remaining capacity *)
can_enter_NoCapacity(c, t, station) ==
    LET tr == c.trains[t] IN
    IF tr.state # AT_STATION THEN "False"
    ELSE IF ~IsNode(tr.station_node) THEN "exception"
    ELSE IF c.nodes[tr.station_node[2]].station # station THEN "False"
    ELSE "True"

can_enter(c, t, station) ==
    LET tr == c.trains[t] IN
    IF tr.state # AT_STATION THEN "False"
    ELSE IF ~IsNode(tr.station_node) THEN "exception"
    ELSE IF c.nodes[tr.station_node[2]].station # station THEN "False"
    ELSE IF Len(tr.passengers) < tr.capacity THEN "True" ELSE "False"

can_exit(c, t) == c.trains[t].state = AT_STATION

---------------------------------------------------------------------------
(* Passenger.  position is StationRef(idx) or TrainRef(idx). *)
Passenger(c, origin, destination) ==
    [starttime |-> c.time, origin |-> origin, destination |-> destination,
     position |-> StationRef(origin)]

(* Passenger.__init__ without a destination: "while destination != origin" *)
(* draws a station until the draw is the origin; Absent while the loop has *)
(* not ended on the draws given.                                           *)
RECURSIVE ChooseDestination(_, _)
ChooseDestination(origin, draws) ==
    IF draws = <<>> THEN Absent
    ELSE IF Head(draws) # origin THEN ChooseDestination(origin, Tail(draws))
    ELSE Head(draws)

(* Station.spawn_passengers: "while dest == self" draws a station until    *)
(* the draw is not the station itself.                                     *)
RECURSIVE DrawDestination(_, _)
DrawDestination(self, draws) ==
    IF draws = <<>> THEN Absent
    ELSE IF Head(draws) = self THEN DrawDestination(self, Tail(draws))
    ELSE Head(draws)

FreshPassenger(c) ==
    CHOOSE p \in 1..(Cardinality(DOMAIN c.passengers) + 1) : p \notin DOMAIN c.passengers

(* Where navigate_step_to reads the navigation map from; the read raises *)
(* when the passenger's train has no station node.                       *)
NavFrom(c, p) ==
    LET pos == c.passengers[p].position IN
    IF IsTrain(pos)
    THEN LET node == c.trains[pos[2] + 1].station_node IN
         IF IsNode(node) THEN c.nodes[node[2]].station ELSE NoStation
    ELSE pos[2]

navigate_step_to(c, p, station) == c.navmap[NavFrom(c, p), station]

(* "On a train, exit if we are traveling in the wrong direction" *)
(* leaving the train at any station where the train stops *)
Disembark_EveryStop(c, p) ==
    LET pa == c.passengers[p]
        t == pa.position[2] + 1
        tr == c.trains[t]
        st == c.nodes[tr.station_node[2]].station
    IN
    IF ~IsTrain(pa.position) THEN Ret(c, "None")
    ELSE IF tr.line = NoLine THEN Raise(c)              \* None.color
    ELSE IF NavFrom(c, p) = NoStation THEN Raise(c)     \* None.station
    ELSE IF ~can_exit(c, t) THEN Ret(c, "None")
    ELSE IF ~Contains(tr.passengers, p) THEN Raise(c)   \* list.remove: ValueError
    ELSE Ret([c EXCEPT !.trains[t].passengers = ListRemove(@, p),
                       !.stations[st + 1].passengers = Append(@, p),
                       !.passengers[p].position = StationRef(st)], "None")

Disembark(c, p) ==
    LET pa == c.passengers[p]
        t == pa.position[2] + 1
        tr == c.trains[t]
        st == c.nodes[tr.station_node[2]].station
    IN
    IF ~IsTrain(pa.position) THEN Ret(c, "None")
    ELSE IF tr.line = NoLine THEN Raise(c)              \* None.color
    ELSE IF NavFrom(c, p) = NoStation THEN Raise(c)     \* None.station
    ELSE IF <<c.lines[tr.line].color, tr.direction>> \in navigate_step_to(c, p, pa.destination)
         THEN Ret(c, "None")
    ELSE IF ~can_exit(c, t) THEN Ret(c, "None")
    ELSE IF ~Contains(tr.passengers, p) THEN Raise(c)   \* list.remove: ValueError
    ELSE Ret([c EXCEPT !.trains[t].passengers = ListRemove(@, p),
                       !.stations[st + 1].passengers = Append(@, p),
                       !.passengers[p].position = StationRef(st)], "None")

(* "On a station, check if we can get on any train to destination" *)
(* boarding the last of the trains that fit, not the first *)
Embark_LastFitting(c, p) ==
    LET pa == c.passengers[p]
        s == pa.position[2]
        T == 1..Len(c.trains)
        fits(t) == /\ can_enter(c, t, s) = "True"
                   /\ <<c.lines[c.trains[t].line].color, c.trains[t].direction>>
                        \in navigate_step_to(c, p, pa.destination)
        cand == {t \in T : fits(t)}
        first == CHOOSE t \in cand : \A u \in cand : t >= u
    IN
    IF ~IsStation(pa.position) THEN Ret(c, "None")
    ELSE IF \E t \in T : can_enter(c, t, s) = "exception" THEN Raise(c)
    ELSE IF \E t \in T : can_enter(c, t, s) = "True" /\ c.trains[t].line = NoLine
         THEN Raise(c)                                  \* None.color
    ELSE IF cand = {} THEN Ret(c, "None")
    ELSE IF ~Contains(c.stations[s + 1].passengers, p) THEN Raise(c)
    ELSE Ret([c EXCEPT !.stations[s + 1].passengers = ListRemove(@, p),
                       !.trains[first].passengers = Append(@, p),
                       !.passengers[p].position = TrainRef(first - 1)], "None")

Embark(c, p) ==
    LET pa == c.passengers[p]
        s == pa.position[2]
        T == 1..Len(c.trains)
        fits(t) == /\ can_enter(c, t, s) = "True"
                   /\ <<c.lines[c.trains[t].line].color, c.trains[t].direction>>
                        \in navigate_step_to(c, p, pa.destination)
        cand == {t \in T : fits(t)}
        first == CHOOSE t \in cand : \A u \in cand : t <= u
    IN
    IF ~IsStation(pa.position) THEN Ret(c, "None")
    ELSE IF \E t \in T : can_enter(c, t, s) = "exception" THEN Raise(c)
    ELSE IF \E t \in T : can_enter(c, t, s) = "True" /\ c.trains[t].line = NoLine
         THEN Raise(c)                                  \* None.color
    ELSE IF cand = {} THEN Ret(c, "None")
    ELSE IF ~Contains(c.stations[s + 1].passengers, p) THEN Raise(c)
    ELSE Ret([c EXCEPT !.stations[s + 1].passengers = ListRemove(@, p),
                       !.trains[first].passengers = Append(@, p),
                       !.passengers[p].position = TrainRef(first - 1)], "None")

passenger_arrived(c, p) ==
    [c EXCEPT !.arrived_passengers = Append(@, c.time - c.passengers[p].starttime)]

(* the arrival registered with the passenger left in the station's queue *)
Arrive_KeepsPassenger(c, p) ==
    LET pa == c.passengers[p] IN
    IF pa.position # StationRef(pa.destination) THEN Ret(c, "None")
    ELSE Ret(passenger_arrived(c, p), "None")

(* "Check if we reached final destination" *)
Arrive(c, p) ==
    LET pa == c.passengers[p]
        c1 == passenger_arrived(c, p)
    IN
    IF pa.position # StationRef(pa.destination) THEN Ret(c, "None")
    ELSE IF ~Contains(c.stations[pa.destination + 1].passengers, p) THEN Raise(c1)
    ELSE Ret([c1 EXCEPT !.stations[pa.destination + 1].passengers = ListRemove(@, p)], "None")

Passenger_move(c, p) ==
    LET r1 == Disembark(c, p)
        r2 == Embark(r1.c, p)
    IN IF r1.c.aborted THEN r1
       ELSE IF r2.c.aborted THEN r2
       ELSE Arrive(r2.c, p)

(* Station.spawn_passengers with the random draws given: one passenger per *)
(* entry of dests, in order.                                               *)
RECURSIVE spawn_passengers(_, _, _)
spawn_passengers(c, s, dests) ==
    IF dests = <<>> THEN c
    ELSE LET p == FreshPassenger(c) IN
         spawn_passengers(
             [c EXCEPT !.passengers = (p :> Passenger(c, s, Head(dests))) @@ @,
                       !.stations[s + 1].passengers = Append(@, p)],
             s, Tail(dests))

---------------------------------------------------------------------------
(* City *)
City_add_station(c) ==
    update_navmap([c EXCEPT !.stations = Append(@, NewStation)])

add_line(c) ==
    IF Len(c.lines) < max_lines
    THEN Ret([c EXCEPT !.lines = Append(@, NewLine(Len(c.lines)))], "Line")
    ELSE Ret(c, "None")

clear_line(c, line) ==
    IF line \notin 1..Len(c.lines) THEN Ret(c, "False")
    ELSE Raise(c)                     \* self.line: City has no attribute line

(* add_train with the test of the train limit off by one *)
add_train_PastLimit(c, line, station, direction) ==
    LET t == Len(c.trains) + 1
        c1 == [c EXCEPT !.trains = Append(@, NewTrain)]
        r == set_line(c1, t, line, station, direction)
    IN IF Len(c.trains) > max_trains THEN Ret(c, "None")
       ELSE IF line = NoLine THEN Ret(c1, "Train")
       ELSE IF r.c.aborted THEN r
       ELSE IF is_circular(r.c, line) \/ Cardinality(LineTrains(r.c, line)) = 1
            THEN Ret(update_navmap(r.c), "Train")
            ELSE Ret(r.c, "Train")

add_train(c, line, station, direction) ==
    LET t == Len(c.trains) + 1
        c1 == [c EXCEPT !.trains = Append(@, NewTrain)]
        r == set_line(c1, t, line, station, direction)
    IN IF Len(c.trains) >= max_trains THEN Ret(c, "None")
       ELSE IF line = NoLine THEN Ret(c1, "Train")
       ELSE IF r.c.aborted THEN r
       ELSE IF is_circular(r.c, line) \/ Cardinality(LineTrains(r.c, line)) = 1
            THEN Ret(update_navmap(r.c), "Train")
            ELSE Ret(r.c, "Train")

move_train(c, t, line, station, direction) ==
    Raise(c)                          \* self.city: City has no attribute city

remove_train(c, t) ==
    IF t \notin 1..Len(c.trains) THEN Ret(c, "False")
    ELSE Raise(c)                     \* train.station: Train has no attribute station

City_add_wagon(c, t) ==
    Raise(c)                          \* self.city: City has no attribute city

City_remove_wagon(c, t) ==
    LET r == Train_remove_wagon(c, t) IN
    IF r.c.aborted THEN r
    ELSE IF r.r = "True" THEN Raise(r.c)     \* self.city.free_wagons
    ELSE Ret(r.c, "False")

add_station_to_line(c, line, station, index) ==
    IF line \notin 1..Len(c.lines) \/ station \notin 0..(Len(c.stations) - 1)
    THEN Ret(c, "False")
    ELSE add_station(c, line, station, index)

remove_station_from_line(c, line, station) ==
    IF line \notin 1..Len(c.lines) THEN Ret(c, "False")
    ELSE remove_station(c, line, station)

move_station_in_line(c, line, station, index) ==
    Raise(c)                          \* remove_station_from_line(line, station, False): TypeError

(* sorted(..., key=starttime) is stable: equal start times keep list order *)
RECURSIVE SortedByStart(_, _, _)
SortedByStart(c, ps, tm) ==
    IF tm > c.time THEN <<>>
    ELSE SelectSeq(ps, LAMBDA p : c.passengers[p].starttime = tm)
         \o SortedByStart(c, ps, tm + 1)

RECURSIVE Flatten(_, _)
Flatten(holders, i) ==
    IF i > Len(holders) THEN <<>>
    ELSE holders[i].passengers \o Flatten(holders, i + 1)

(* the stations' passengers youngest first *)
RECURSIVE SortedByStartDown(_, _, _)
SortedByStartDown(c, ps, tm) ==
    IF tm < 0 THEN <<>>
    ELSE SelectSeq(ps, LAMBDA p : c.passengers[p].starttime = tm)
         \o SortedByStartDown(c, ps, tm - 1)

all_passengers_YoungestFirst(c) ==
    SortedByStart(c, Flatten(c.trains, 1), 0)
    \o SortedByStartDown(c, Flatten(c.stations, 1), c.time)

all_passengers(c) ==
    SortedByStart(c, Flatten(c.trains, 1), 0) \o SortedByStart(c, Flatten(c.stations, 1), 0)

---------------------------------------------------------------------------
(* Simulation.simulate_step.  The city edge length and the stations'      *)
(* spawn rates only parametrise the random draws; the draws themselves    *)
(* (how many passengers each station spawns, and where to) are the input  *)
(* spawn, a sequence over the stations of sequences of destinations.      *)
RECURSIVE MoveTrains(_, _)
MoveTrains(c, t) ==
    IF c.aborted \/ t > Len(c.trains) THEN c
    ELSE MoveTrains(Train_move(c, t).c, t + 1)

RECURSIVE SpawnAll(_, _, _)
SpawnAll(c, spawn, s) ==
    IF s >= Len(c.stations) THEN c
    ELSE SpawnAll(spawn_passengers(c, s, spawn[s + 1]), spawn, s + 1)

RECURSIVE MovePassengers(_, _)
MovePassengers(c, ps) ==
    IF c.aborted \/ ps = <<>> THEN c
    ELSE MovePassengers(Passenger_move(c, Head(ps)).c, Tail(ps))

(* the step with the passengers evaluated before the trains are moved *)
simulate_step_PassengersFirst(c, spawn) ==
    LET c0 == IF c.time > 0 /\ c.time % NEW_STATION_INTERVAL = 0
              THEN City_add_station(c) ELSE c
        c1 == SpawnAll(c0, spawn, 0)
        c2 == MovePassengers(c1, all_passengers(c1))
        c3 == IF c2.aborted THEN c2 ELSE MoveTrains(c2, 1)
    IN IF c3.aborted THEN c3 ELSE [c3 EXCEPT !.time = @ + 1]

simulate_step(c, spawn) ==
    LET c0 == IF c.time > 0 /\ c.time % NEW_STATION_INTERVAL = 0
              THEN City_add_station(c) ELSE c
        c1 == MoveTrains(c0, 1)
        c2 == IF c1.aborted THEN c1 ELSE SpawnAll(c1, spawn, 0)
        c3 == MovePassengers(c2, all_passengers(c2))
    IN IF c3.aborted THEN c3 ELSE [c3 EXCEPT !.time = @ + 1]

(* Simulation.continue_simulation *)
WaitingTimes(c) ==
    LET ps == all_passengers(c) IN {c.time - c.passengers[ps[i]].starttime : i \in 1..Len(ps)}

Max(S) == CHOOSE x \in S : \A y \in S : y <= x

(* continue_simulation that lets the longest wait reach MAX_WAITING_TIME *)
continue_simulation_PastLimit(c, max_iterations) ==
    /\ c.time < max_iterations
    /\ IF Cardinality(WaitingTimes(c)) = 0 THEN TRUE
       ELSE Max(WaitingTimes(c)) <= MAX_WAITING_TIME

continue_simulation(c, max_iterations) ==
    /\ c.time < max_iterations
    /\ IF Cardinality(WaitingTimes(c)) = 0 THEN TRUE
       ELSE Max(WaitingTimes(c)) < MAX_WAITING_TIME

---------------------------------------------------------------------------
(* Simulation._process_user_actions.  A command is the parsed action: its  *)
(* object_type and action strings and the fields object_id, station, line  *)
(* (the color), direction and index, each Absent when the key is missing.  *)
Command(object_type, action, object_id, station, line, direction, index) ==
    [object_type |-> object_type, action |-> action, object_id |-> object_id,
     station |-> station, line |-> line, direction |-> direction, index |-> index]

(* _parse_action: success is False when a field names nothing that exists *)
parse_ok(c, a) ==
    LET S == 0..(Len(c.stations) - 1)
        L == {c.lines[l].color : l \in 1..Len(c.lines)}
        T == 0..(Len(c.trains) - 1)
    IN /\ a.object_type \in {"train", "station", "line"}
       /\ a.object_id # Absent =>
            a.object_id \in (IF a.object_type = "train" THEN T
                             ELSE IF a.object_type = "station" THEN S ELSE L)
       /\ a.action # "" => a.action \in {"add", "remove", "move", "extend", "shrink"}
       /\ a.station # Absent => a.station \in S
       /\ a.line # Absent => a.line \in L
       /\ a.direction # Absent => a.direction \in {-1, 1}

(* the objects the parsed fields resolve to *)
LineOf(c, color) ==
    IF color = Absent THEN NoLine ELSE CHOOSE l \in 1..Len(c.lines) : c.lines[l].color = color
StationOf(id) == IF id = Absent THEN NoStation ELSE id
TrainOf(id) == IF id = Absent THEN 0 ELSE id + 1

apply_action(c, a) ==
    LET line == LineOf(c, a.line)
        station == StationOf(a.station)
    IN
    IF ~parse_ok(c, a) THEN Ret(c, "Invalid action")
    ELSE IF a.object_type = "train" /\ a.action = "add" THEN
        add_train(c, line, station, IF a.direction = Absent THEN 1 ELSE a.direction)
    ELSE IF a.object_type = "train" /\ a.action = "remove" THEN
        remove_train(c, TrainOf(a.object_id))
    ELSE IF a.object_type = "train" /\ a.action = "move" THEN
        move_train(c, TrainOf(a.object_id), line, station, a.direction)
    ELSE IF a.object_type = "train" /\ a.action = "extend" THEN
        City_add_wagon(c, TrainOf(a.object_id))
    ELSE IF a.object_type = "train" /\ a.action = "shrink" THEN
        IF a.object_id = Absent THEN Raise(c)            \* None.remove_wagon
        ELSE City_remove_wagon(c, TrainOf(a.object_id))
    ELSE IF a.object_type = "line" /\ a.action = "add" THEN add_line(c)
    ELSE IF a.object_type = "line" /\ a.action = "remove" THEN
        Raise(c)                                         \* clear_line(): TypeError
    ELSE IF a.object_type = "station" /\ a.action = "add" THEN
        IF a.index = Absent /\ line = NoLine THEN Raise(c)   \* None.station_nodes
        ELSE add_station_to_line(c, line, StationOf(a.object_id),
                 IF a.index = Absent THEN Len(c.lines[line].station_nodes) ELSE a.index)
    ELSE IF a.object_type = "station" /\ a.action = "remove" THEN
        remove_station_from_line(c, line, StationOf(a.object_id))
    ELSE IF a.object_type = "station" /\ a.action = "move" THEN
        move_station_in_line(c, line, StationOf(a.object_id), a.index)
    ELSE Ret(c, "Invalid action received")

(* the loop over the actions; r collects what each command returned *)
RECURSIVE ApplyAll(_, _, _)
ApplyAll(c, batch, done) ==
    IF c.aborted \/ batch = <<>> THEN Ret(c, done)
    ELSE LET r == apply_action(c, Head(batch)) IN
         ApplyAll(r.c, Tail(batch), Append(done, r.r))

(* _process_user_actions without the rebuild after the loop *)
process_user_actions_NoRebuild(c, batch) ==
    ApplyAll(c, batch, <<>>)

(* an empty json_string: nothing is parsed and nothing is rebuilt *)
process_no_actions(c) == Ret(c, "True")

(* the loop over the actions left at the first action that is invalid *)
RECURSIVE ApplyUntilInvalid(_, _, _)
ApplyUntilInvalid(c, batch, done) ==
    IF c.aborted \/ batch = <<>> THEN Ret(c, done)
    ELSE LET r == apply_action(c, Head(batch)) IN
         IF ~parse_ok(c, Head(batch)) THEN Ret(r.c, Append(done, r.r))
         ELSE ApplyUntilInvalid(r.c, Tail(batch), Append(done, r.r))

process_user_actions_StopAtInvalid(c, batch) ==
    LET r == ApplyUntilInvalid(c, batch, <<>>) IN
    IF r.c.aborted THEN r ELSE Ret(update_navmap(r.c), r.r)

(* the loop with every action parsed against the city as it was before  *)
(* the first action                                                      *)
RECURSIVE ApplyParsedBefore(_, _, _, _)
ApplyParsedBefore(c0, c, batch, done) ==
    IF c.aborted \/ batch = <<>> THEN Ret(c, done)
    ELSE IF ~parse_ok(c0, Head(batch))
    THEN ApplyParsedBefore(c0, c, Tail(batch), Append(done, "Invalid action"))
    ELSE LET r == apply_action(c, Head(batch)) IN
         ApplyParsedBefore(c0, r.c, Tail(batch), Append(done, r.r))

process_user_actions_ParsedBefore(c, batch) ==
    LET r == ApplyParsedBefore(c, c, batch, <<>>) IN
    IF r.c.aborted THEN r ELSE Ret(update_navmap(r.c), r.r)

process_user_actions(c, batch) ==
    LET r == ApplyAll(c, batch, <<>>) IN
    IF r.c.aborted THEN r ELSE Ret(update_navmap(r.c), r.r)

---------------------------------------------------------------------------
(* The heaps hold only the objects something still refers to, numbered in  *)
(* the order the city reaches them (object ids carry no meaning).          *)
RECURSIVE Closure(_, _)
Closure(c, S) ==
    LET T == S \cup {n \in DOMAIN c.nodes :
                       \E m \in S : NodeRef(n) \in {c.nodes[m].previous_node,
                                                   c.nodes[m].next_node}}
    IN IF T = S THEN S ELSE Closure(c, T)

RECURSIVE LineNodes(_, _)
LineNodes(c, l) ==
    IF l > Len(c.lines) THEN <<>>
    ELSE c.lines[l].station_nodes \o LineNodes(c, l + 1)

RECURSIVE Ascending(_)
Ascending(S) ==
    IF S = {} THEN <<>>
    ELSE LET m == CHOOSE x \in S : \A y \in S : x <= y IN <<m>> \o Ascending(S \ {m})

RECURSIVE Distinct(_)
Distinct(s) ==
    IF s = <<>> THEN <<>>
    ELSE LET r == Distinct(SubSeq(s, 1, Len(s) - 1)) IN
         IF Contains(r, s[Len(s)]) THEN r ELSE Append(r, s[Len(s)])

Collect(c) ==
    LET live == LineNodes(c, 1)
        roots == {live[i] : i \in 1..Len(live)}
                 \cup {n \in DOMAIN c.nodes :
                         \/ \E t \in 1..Len(c.trains) : c.trains[t].station_node = NodeRef(n)
                         \/ \E s \in 1..Len(c.stations) :
                              NodeRef(n) \in {c.stations[s].previous_node,
                                              c.stations[s].next_node}}
        order == live \o Ascending(Closure(c, roots) \ {live[i] : i \in 1..Len(live)})
        ren(r) == IF IsNode(r) THEN NodeRef(IndexOf(order, r[2])) ELSE r
        porder == Distinct(Flatten(c.trains, 1) \o Flatten(c.stations, 1))
        pren(p) == IndexOf(porder, p)
    IN [c EXCEPT
          !.nodes = [i \in 1..Len(order) |->
                       [c.nodes[order[i]] EXCEPT !.previous_node = ren(@),
                                                 !.next_node = ren(@)]],
          !.lines = [l \in 1..Len(c.lines) |->
                       [c.lines[l] EXCEPT !.station_nodes =
                            [i \in 1..Len(@) |-> IndexOf(order, @[i])]]],
          !.trains = [t \in 1..Len(c.trains) |->
                       [c.trains[t] EXCEPT !.station_node = ren(@),
                                           !.passengers = [i \in 1..Len(@) |-> pren(@[i])]]],
          !.stations = [s \in 1..Len(c.stations) |->
                       [c.stations[s] EXCEPT !.previous_node = ren(@),
                                             !.next_node = ren(@),
                                             !.passengers = [i \in 1..Len(@) |-> pren(@[i])]]],
          !.passengers = [i \in 1..Len(porder) |-> c.passengers[porder[i]]]]

Commit(r, op, arg) ==
    LET c == Collect(r.c) IN
    /\ time' = c.time
    /\ stations' = c.stations
    /\ lines' = c.lines
    /\ trains' = c.trains
    /\ nodes' = c.nodes
    /\ passengers' = c.passengers
    /\ free_wagons' = c.free_wagons
    /\ distmap' = c.distmap
    /\ navmap' = c.navmap
    /\ arrived_passengers' = c.arrived_passengers
    /\ aborted' = c.aborted
    /\ lastop' = [op |-> op, arg |-> arg, result |-> r.r, rebuilt |-> c.rebuilt]

(* City.__init__ *)
Init ==
    /\ time = 0
    /\ stations = <<>>
    /\ lines = <<>>
    /\ trains = <<>>
    /\ nodes = <<>>
    /\ passengers = <<>>
    /\ free_wagons = 0
    /\ distmap = <<>>
    /\ navmap = <<>>
    /\ arrived_passengers = <<>>
    /\ aborted = FALSE
    /\ lastop = [op |-> "init", arg |-> 0, result |-> "None", rebuilt |-> FALSE]

---------------------------------------------------------------------------
(* Operations *)
AddStation(limit) ==
    /\ ~aborted
    /\ Len(stations) < limit
    /\ Commit(Ret(City_add_station(City), "Station"), "add_station", 0)

ProcessUserActions(batch) ==
    /\ ~aborted
    /\ Commit(process_user_actions(City, batch), "process_user_actions", Len(batch))

ProcessNoActions ==
    /\ ~aborted
    /\ Commit(process_no_actions(City), "no_actions", 0)

(* the same call, with the batch itself kept in the history *)
ProcessBatch(batch) ==
    /\ ~aborted
    /\ Commit(process_user_actions(City, batch), "process_batch", batch)

MakeCircular(l) ==
    /\ ~aborted
    /\ Commit(make_circular(City, l), "make_circular", l)

BreakCircular(l) ==
    /\ ~aborted
    /\ Commit(break_circular(City, l), "break_circular", l)

TrainMove(t) ==
    /\ ~aborted
    /\ Commit(Train_move(City, t), "Train.move", t)

SimulateStep(spawn, limit) ==
    /\ ~aborted
    /\ time < limit
    /\ Commit(Ret(simulate_step(City, spawn), "None"), "simulate_step", 0)

(* the same step, with the draws kept in the history *)
SimulateStepDrawing(spawn, limit) ==
    /\ ~aborted
    /\ time < limit
    /\ Commit(Ret(simulate_step(City, spawn), "None"), "simulate_step_drawing", spawn)

(* Simulation.export_json: Line.to_dict reads self.stations, which a Line *)
(* does not have, and Train.to_dict reads station_node.station            *)
export_json(c) ==
    IF Len(c.lines) > 0 \/ \E t \in 1..Len(c.trains) : c.trains[t].station_node = None
    THEN Raise(c) ELSE Ret(c, "json")

(* One pass of the loop of Simulation.run; answered is the city after     *)
(* _process_user_actions has processed what usr_func returned             *)
run_pass(exported, answered, spawn) ==
    IF exported.c.aborted THEN exported.c
    ELSE IF answered.c.aborted THEN answered.c
    ELSE simulate_step(answered.c, spawn)

RunPass(batch, spawn, iters) ==
    /\ ~aborted
    /\ continue_simulation(City, iters)
    /\ Commit(Ret(run_pass(export_json(City), process_user_actions(City, batch), spawn),
                  "None"), "run", 0)

RunPassNoActions(spawn, iters) ==
    /\ ~aborted
    /\ continue_simulation(City, iters)
    /\ Commit(Ret(run_pass(export_json(City), process_no_actions(City), spawn),
                  "None"), "run", 0)

(* Station.spawn_passengers spawning one passenger, the loop ended *)
SpawnPassenger(s, draws) ==
    /\ ~aborted
    /\ DrawDestination(s, draws) # Absent
    /\ Commit(Ret(spawn_passengers(City, s, <<DrawDestination(s, draws)>>),
                  <<s, DrawDestination(s, draws)>>), "spawn_passengers", <<s, draws>>)

(* Passenger(city, origin): the passenger is returned, held by no station *)
NewPassenger(origin, draws) ==
    /\ ~aborted
    /\ ChooseDestination(origin, draws) # Absent
    /\ Commit(Ret(City, <<origin, ChooseDestination(origin, draws)>>),
              "Passenger", <<origin, draws>>)

TrainAddWagon(t, limit) ==
    /\ ~aborted
    /\ trains[t].capacity < limit * WAGON_CAPACITY
    /\ Commit(Train_add_wagon(City, t), "Train.add_wagon", t)

TrainRemoveWagon(t) ==
    /\ ~aborted
    /\ Commit(Train_remove_wagon(City, t), "Train.remove_wagon", t)

CityAddTrain(line, station, direction) ==
    /\ ~aborted
    /\ Commit(add_train(City, line, station, direction), "add_train",
              <<line, station, direction>>)

CityAddWagon(t) ==
    /\ ~aborted
    /\ Commit(City_add_wagon(City, t), "add_wagon", t)

CityRemoveWagon(t) ==
    /\ ~aborted
    /\ Commit(City_remove_wagon(City, t), "remove_wagon", t)

CityAddLine ==
    /\ ~aborted
    /\ Commit(add_line(City), "add_line", 0)

(* Station.spawn_passengers with the destinations drawn given *)
StationSpawn(s, dests) ==
    /\ ~aborted
    /\ Commit(Ret(spawn_passengers(City, s, dests), "None"), "Station.spawn", s)

(* The loop of simulate_step over all_passengers, by itself *)
MoveAllPassengers ==
    /\ ~aborted
    /\ Commit(Ret(MovePassengers(City, all_passengers(City)), "None"), "move_all", 0)

(* Passenger.move of the passenger p; the history keeps who it was and   *)
(* where: origin, destination, starttime, position                       *)
PassengerMove(p) ==
    /\ ~aborted
    /\ Commit(Passenger_move(City, p), "Passenger.move",
              <<passengers[p].origin, passengers[p].destination,
                passengers[p].starttime, passengers[p].position>>)

(* City._update_navmap called on the city as it is; the argument recorded *)
(* is 2 when the operation before it was a rebuild too, else 1            *)
UpdateNavmap ==
    /\ ~aborted
    /\ Commit(Ret(update_navmap(City), "None"), "update_navmap",
              IF lastop.op = "update_navmap" THEN 2 ELSE 1)

CityAddStationToLine(line, station, index) ==
    /\ ~aborted
    /\ Commit(add_station_to_line(City, line, station, index), "add_station_to_line",
              <<line, station, index>>)

TrainSetLine(t, line, station, direction) ==
    /\ ~aborted
    /\ Commit(set_line(City, t, line, station, direction), "Train.set_line",
              <<t, line, station, direction>>)

CityRemoveTrain(t) ==
    /\ ~aborted
    /\ Commit(remove_train(City, t), "remove_train", t)

CityMoveTrain(t, line, station, direction) ==
    /\ ~aborted
    /\ Commit(move_train(City, t, line, station, direction), "move_train",
              <<t, line, station, direction>>)

CityRemoveStationFromLine(line, station) ==
    /\ ~aborted
    /\ Commit(remove_station_from_line(City, line, station), "remove_station_from_line",
              <<line, station>>)

CityMoveStationInLine(line, station, index) ==
    /\ ~aborted
    /\ Commit(move_station_in_line(City, line, station, index), "move_station_in_line",
              <<line, station, index>>)

CityClearLine(line) ==
    /\ ~aborted
    /\ Commit(clear_line(City, line), "clear_line", line)

Colors == {lines[l].color : l \in 1..Len(lines)}
StationIds == 0..(Len(stations) - 1)
NodeCount == Len(LineNodes(City, 1))

LineAdd == Command("line", "add", Absent, Absent, Absent, Absent, Absent)
StationAdd(s, col, i) == Command("station", "add", s, Absent, col, Absent, i)
StationRemove(s, col) == Command("station", "remove", s, Absent, col, Absent, Absent)
TrainAdd(col, s, d) == Command("train", "add", Absent, s, col, d, Absent)

---------------------------------------------------------------------------
(* The navigation map over changing topologies: stations are added;       *)
(* lines are added, and stations put on and taken off lines, by command   *)
(* batches (each ends with the rebuild).                                  *)
NavBatches ==
    {<<>>}
    \cup {<<LineAdd>> : x \in {1} \cap 1..(NavLines - Len(lines))}
    \cup {<<StationAdd(s, col, i)>> :
            s \in StationIds, col \in Colors, i \in {k \in {Absent, 0} : NodeCount < NavNodes}}
    \cup {<<StationRemove(s, col)>> : s \in StationIds, col \in Colors}

NavNext ==
    \/ AddStation(NavStations)
    \/ \E batch \in NavBatches : ProcessUserActions(batch)

SpecNav == Init /\ [][NavNext]_vars

---------------------------------------------------------------------------
(* Trains on lines: the stations are appended to a line in the order of   *)
(* their idx, the line is closed to a ring and opened again, a train is   *)
(* put on it at any of its stations and advanced.                         *)
TrainBatches ==
    {<<>>}
    \cup {<<LineAdd>> : x \in {1} \cap 1..(TrainLines - Len(lines))}
    \cup {<<StationAdd(Len(lines[l].station_nodes), lines[l].color, Absent)>> :
            l \in {k \in 1..Len(lines) : Len(lines[k].station_nodes) < Len(stations)}}
    \cup {<<TrainAdd(col, s, d)>> :
            s \in StationIds, col \in Colors, d \in {k \in {-1, 1} : Len(trains) < TrainTrains}}

TrainNext ==
    \/ AddStation(TrainStations)
    \/ \E batch \in TrainBatches : ProcessUserActions(batch)
    \/ \E l \in 1..Len(lines) : MakeCircular(l)
    \/ \E l \in 1..Len(lines) : BreakCircular(l)
    \/ \E t \in 1..Len(trains) : TrainMove(t)

SpecTrain == Init /\ [][TrainNext]_vars

---------------------------------------------------------------------------
(* Reference for the navigation map: the directed unit edges between the  *)
(* stations that are consecutive on a line, and a breadth-first search    *)
(* over them.  A line is a ring once make_circular has linked its ends.   *)
Ring(c, l) ==
    LET sn == c.lines[l].station_nodes IN
    /\ Len(sn) >= 2
    /\ c.nodes[sn[Len(sn)]].next_node \in {NodeRef(sn[1]), StationRef(c.nodes[sn[1]].station)}

RefDirections(c, l) ==
    IF Ring(c, l) THEN {c.trains[t].direction : t \in LineTrains(c, l)} ELSE {-1, 1}

RefPairs(c, l) ==
    LET idx == StationIdxs(c, l) IN
    {<<idx[i], idx[i + 1]>> : i \in 1..(Len(idx) - 1)}
        \cup (IF Ring(c, l) THEN {<<idx[Len(idx)], idx[1]>>} ELSE {})

RefLineEdges(c, l) ==
    {[from |-> p[1], to |-> p[2], option |-> <<c.lines[l].color, 1>>] :
        p \in {q \in RefPairs(c, l) : 1 \in RefDirections(c, l)}}
    \cup {[from |-> p[2], to |-> p[1], option |-> <<c.lines[l].color, -1>>] :
        p \in {q \in RefPairs(c, l) : -1 \in RefDirections(c, l)}}

RefEdges(c) == UNION {RefLineEdges(c, l) : l \in 1..Len(c.lines)}

RECURSIVE RefWithin(_, _, _)
RefWithin(E, i, hops) ==
    IF hops = 0 THEN {i}
    ELSE LET W == RefWithin(E, i, hops - 1) IN W \cup {e.to : e \in {f \in E : f.from \in W}}

RefDist(E, N, i, j) ==
    IF j \notin RefWithin(E, i, N) THEN Inf
    ELSE CHOOSE d \in 0..N :
            /\ j \in RefWithin(E, i, d)
            /\ \A d2 \in 0..(d - 1) : j \notin RefWithin(E, i, d2)

RefFirstHops(E, N, i, j) ==
    IF i = j THEN {}
    ELSE {e.option : e \in {f \in E : /\ f.from = i
                                      /\ RefDist(E, N, f.to, j) # Inf
                                      /\ RefDist(E, N, f.to, j) + 1 = RefDist(E, N, i, j)}}

Rebuilt == ~aborted /\ lastop.rebuilt

(* C1: after a rebuild of the navigation map, the route options of every  *)
(* ordered pair (i, j) with j not reachable from i over the line edges    *)
(* are the empty set.                                                     *)
NavUnreachableEmpty ==
    Rebuilt =>
        \A i \in StationIds, j \in StationIds :
            RefDist(RefEdges(City), Len(stations), i, j) = Inf => navmap[i, j] = {}

(* C2: after a rebuild, two stations that are consecutive on a line are   *)
(* at distance 1 in both directions, with (line, +1) among the options    *)
(* forward and (line, -1) among the options backward, and only stations   *)
(* adjacent on some line are at distance 1.                               *)
NavAdjacentDistanceOne ==
    Rebuilt =>
        /\ \A l \in 1..Len(lines) : \A p \in RefPairs(City, l) :
              /\ distmap[p[1], p[2]] = 1
              /\ distmap[p[2], p[1]] = 1
              /\ <<lines[l].color, 1>> \in navmap[p[1], p[2]]
              /\ <<lines[l].color, -1>> \in navmap[p[2], p[1]]
        /\ \A i \in StationIds, j \in StationIds :
              distmap[i, j] = 1 => \E e \in RefEdges(City) : e.from = i /\ e.to = j

(* C3: after a rebuild, for every pair (i, j) with j reachable from i the *)
(* distance is the minimum hop count over the line edges and the route    *)
(* options are exactly the first hops of the minimum-hop paths.           *)
NavMatchesBreadthFirst ==
    Rebuilt =>
        \A i \in StationIds, j \in StationIds :
            LET d == RefDist(RefEdges(City), Len(stations), i, j) IN
            d # Inf =>
                /\ distmap[i, j] = d
                /\ navmap[i, j] = RefFirstHops(RefEdges(City), Len(stations), i, j)

(* C4: after a rebuild, distance(i, j) <= distance(i, k) + distance(k, j) *)
(* for all stations i, j, k, and distance(i, i) = 0.                      *)
NavClosure ==
    Rebuilt =>
        /\ \A i \in StationIds, j \in StationIds, k \in StationIds :
              distmap[i, j] <= Plus(distmap[i, k], distmap[k, j])
        /\ \A i \in StationIds : distmap[i, i] = 0

(* A rebuild has lowered a distance through a midpoint.                   *)
NavClosureWitness ==
    /\ Rebuilt
    /\ Len(stations) = NavStations
    /\ \E i \in StationIds, j \in StationIds : distmap[i, j] = 2

---------------------------------------------------------------------------
(* Lines and trains *)

(* A line that is not closed: its two ends are unlinked. *)
OpenLine(c, l) ==
    LET sn == c.lines[l].station_nodes IN
    /\ Len(sn) >= 1
    /\ c.nodes[sn[1]].previous_node = None
    /\ c.nodes[sn[Len(sn)]].next_node = None

LineNodeRefs(c, l) == {NodeRef(c.lines[l].station_nodes[i]) : i \in 1..Len(c.lines[l].station_nodes)}

(* C5: on a ring of 4 stations whose only train runs +1, the rebuilt map  *)
(* has distance 1 from every station to the next one (the closing edge    *)
(* from the last to the first included) and distance 3 back.              *)
RingOneWayDistances ==
    Rebuilt =>
        \A l \in 1..Len(lines) :
            LET idx == StationIdxs(City, l) IN
            (/\ Ring(City, l)
             /\ Len(idx) = 4
             /\ LineTrains(City, l) # {}
             /\ \A t \in LineTrains(City, l) : trains[t].direction = 1)
            => \A p \in 1..4 :
                  /\ distmap[idx[p], idx[(p % 4) + 1]] = 1
                  /\ distmap[idx[(p % 4) + 1], idx[p]] = 3

(* C6: after make_circular on a line of at least 2 stations is_circular   *)
(* is true, after break_circular it is false, and is_circular is true     *)
(* exactly when the line has at least 2 nodes and the last node's next    *)
(* link is the first node.                                                *)
CircularAfterMake ==
    ~aborted =>
        /\ (lastop.op = "make_circular" /\ Len(lines[lastop.arg].station_nodes) >= 2)
              => is_circular(City, lastop.arg)
        /\ (lastop.op = "break_circular" /\ Len(lines[lastop.arg].station_nodes) >= 2)
              => ~is_circular(City, lastop.arg)
        /\ \A l \in 1..Len(lines) :
              LET sn == lines[l].station_nodes IN
              is_circular(City, l) <=>
                  (Len(sn) >= 2 /\ nodes[sn[Len(sn)]].next_node = NodeRef(sn[1]))

(* The station a train stands at (or has left), NoStation without a node *)
TrainStation(c, t) ==
    IF IsNode(c.trains[t].station_node) THEN c.nodes[c.trains[t].station_node[2]].station
    ELSE NoStation

(* Where a train on the open line 0-1-2 is after its next arrival *)
BounceSuccessor(station, direction) ==
    IF station = 0 /\ direction = 1 THEN <<1, 1>>
    ELSE IF station = 1 /\ direction = 1 THEN <<2, -1>>
    ELSE IF station = 2 /\ direction = -1 THEN <<1, -1>>
    ELSE <<0, 1>>

OnBounceCycle(c, t) ==
    /\ c.trains[t].line # NoLine
    /\ OpenLine(c, c.trains[t].line)
    /\ StationIdxs(c, c.trains[t].line) = <<0, 1, 2>>
    /\ <<TrainStation(c, t), c.trains[t].direction>> \in {<<0, 1>>, <<1, 1>>, <<2, -1>>, <<1, -1>>}

(* C7: on the open line 0-1-2 a train that started at station 0 heading   *)
(* +1 is put AT_STATION at 0, 1, 2, 1, 0, 1, 2, ... by successive moves:  *)
(* every move out of a station leaves the station and the direction       *)
(* alone, every arrival is at the neighbour in the direction of travel,   *)
(* and the direction turns on arrival at an end of the line.              *)
BounceSequence ==
    [][\A t \in 1..Len(trains) :
        (lastop'.op = "Train.move" /\ lastop'.arg = t /\ OnBounceCycle(City, t)) =>
            /\ ~aborted'
            /\ Len(trains') = Len(trains)
            /\ IF trains[t].state = AT_STATION
               THEN /\ trains'[t].state = LEFT_STATION
                    /\ trains'[t].station_node = trains[t].station_node
                    /\ trains'[t].direction = trains[t].direction
               ELSE /\ trains'[t].state = AT_STATION
                    /\ IsNode(trains'[t].station_node)
                    /\ <<nodes'[trains'[t].station_node[2]].station, trains'[t].direction>>
                          = BounceSuccessor(TrainStation(City, t), trains[t].direction)]_vars

(* A train has arrived at the last station of the open line 0-1-2 and     *)
(* has turned there.                                                      *)
BounceWitness ==
    /\ ~aborted
    /\ lastop.op = "Train.move"
    /\ \E t \in 1..Len(trains) :
          /\ lastop.arg = t
          /\ OnBounceCycle(City, t)
          /\ trains[t].state = AT_STATION
          /\ TrainStation(City, t) = 2
          /\ trains[t].direction = -1

(* C8: on an open line of at least 2 nodes, next_station returns for      *)
(* every node and direction a node of the line and a direction +1 or -1   *)
(* without failing, with direction -1 from the last node heading +1 and   *)
(* direction +1 from the first node heading -1.                           *)
NextStationBounces ==
    \A l \in 1..Len(lines) :
        LET sn == lines[l].station_nodes IN
        (~aborted /\ OpenLine(City, l) /\ Len(sn) >= 2) =>
            /\ \A n \in LineNodeRefs(City, l), d \in {1, -1} :
                  LET r == next_station(City, l, n, d) IN
                  /\ ~r.raised
                  /\ r.node \in LineNodeRefs(City, l)
                  /\ r.direction \in {1, -1}
            /\ LET r == next_station(City, l, NodeRef(sn[Len(sn)]), 1) IN
                  ~r.raised /\ r.direction = -1
            /\ LET r == next_station(City, l, NodeRef(sn[1]), -1) IN
                  ~r.raised /\ r.direction = 1

(* C9: on a ring, next_station keeps the direction for every node, wraps  *)
(* from the last node to the first heading +1 and from the first to the   *)
(* last heading -1, and returns a node of the line; no move of a train on *)
(* the ring fails.                                                        *)
RingTraversalWraps ==
    /\ \A l \in 1..Len(lines) :
        LET sn == lines[l].station_nodes IN
        (~aborted /\ Ring(City, l)) =>
            /\ \A n \in LineNodeRefs(City, l), d \in {1, -1} :
                  LET r == next_station(City, l, n, d) IN
                  /\ ~r.raised
                  /\ r.node \in LineNodeRefs(City, l)
                  /\ r.direction = d
            /\ next_station(City, l, NodeRef(sn[Len(sn)]), 1).node = NodeRef(sn[1])
            /\ next_station(City, l, NodeRef(sn[1]), -1).node = NodeRef(sn[Len(sn)])
    /\ \A t \in 1..Len(trains) :
        (lastop.op = "Train.move" /\ lastop.arg = t /\ trains[t].line # NoLine
            /\ Ring(City, trains[t].line)) => ~aborted

---------------------------------------------------------------------------
(* Passengers: a line over the stations with one train, wagons added to   *)
(* and taken off the train, and ticks in which one station spawns a       *)
(* single passenger or a burst of them.                                   *)
RideBatches ==
    {<<LineAdd>> : x \in {1} \cap 1..(RideLines - Len(lines))}
    \cup {<<StationAdd(Len(lines[l].station_nodes), lines[l].color, Absent)>> :
            l \in {k \in 1..Len(lines) : Len(lines[k].station_nodes) < Len(stations)}}
    \cup {<<TrainAdd(col, s, d)>> :
            s \in StationIds, col \in Colors, d \in {k \in {-1, 1} : Len(trains) < RideTrains}}

NoSpawn == [s \in 1..Len(stations) |-> <<>>]

(* The draws of one tick: nothing, or count passengers at one station,    *)
(* all to one other station.                                              *)
RideSpawns ==
    {NoSpawn}
    \cup {[NoSpawn EXCEPT ![x[1] + 1] = [i \in 1..x[3] |-> x[2]]] :
            x \in {y \in StationIds \X StationIds \X {1, RideBurst} :
                     y[1] # y[2] /\ Len(passengers) + y[3] <= RidePassengers}}

RideNext ==
    \/ AddStation(RideStations)
    \/ \E batch \in RideBatches : ProcessUserActions(batch)
    \/ \E spawn \in RideSpawns : SimulateStep(spawn, RideTicks)
    \/ \E t \in 1..Len(trains) : TrainAddWagon(t, RideWagons)
    \/ \E t \in 1..Len(trains) : TrainRemoveWagon(t)

SpecRide == Init /\ [][RideNext]_vars

(* The containers that hold passenger p *)
Holders(p) ==
    {StationRef(s - 1) : s \in {k \in 1..Len(stations) : Contains(stations[k].passengers, p)}}
    \cup {TrainRef(t - 1) : t \in {k \in 1..Len(trains) : Contains(trains[k].passengers, p)}}

(* C10: every active passenger is held by exactly one station queue or    *)
(* train roster, and its position names that container.                   *)
PassengerInOneContainer ==
    ~aborted =>
        \A p \in DOMAIN passengers :
            /\ Cardinality(Holders(p)) = 1
            /\ passengers[p].position \in Holders(p)

(* C11: after every tick, whatever wagons were added to or taken off the  *)
(* trains before it, no train carries more passengers than its capacity.  *)
OnboardWithinCapacity ==
    (~aborted /\ lastop.op = "simulate_step") =>
        \A t \in 1..Len(trains) : Len(trains[t].passengers) <= trains[t].capacity

(* A tick has ended with a train filled to its capacity while a passenger *)
(* that the train would take is left waiting at the train's station.      *)
OnboardWithinCapacityWitness ==
    /\ ~aborted
    /\ lastop.op = "simulate_step"
    /\ \E t \in 1..Len(trains) :
          /\ Len(trains[t].passengers) = trains[t].capacity
          /\ trains[t].state = AT_STATION
          /\ IsNode(trains[t].station_node)
          /\ \E p \in DOMAIN passengers :
                /\ passengers[p].position = StationRef(nodes[trains[t].station_node[2]].station)
                /\ <<lines[trains[t].line].color, trains[t].direction>>
                      \in navigate_step_to(City, p, passengers[p].destination)

---------------------------------------------------------------------------
(* Wagons: trains are created without a line; wagons are added and taken  *)
(* off through the train (Train.add_wagon, Train.remove_wagon) and        *)
(* through the city (City.add_wagon, City.remove_wagon).                  *)
WagonNext ==
    \/ /\ Len(trains) < WagonTrains
       /\ CityAddTrain(NoLine, NoStation, FOREWARD)
    \/ \E t \in 1..Len(trains) : TrainAddWagon(t, MAX_WAGONS + 1)
    \/ \E t \in 1..Len(trains) : TrainRemoveWagon(t)
    \/ \E t \in 1..Len(trains) : CityAddWagon(t)
    \/ \E t \in 1..Len(trains) : CityRemoveWagon(t)

SpecWagon == Init /\ [][WagonNext]_vars

Wagons(tr) == tr.capacity \div WAGON_CAPACITY

(* The passengers of a roster or queue, as (origin, destination, start) *)
Riders(ps, roster) ==
    [i \in 1..Len(roster) |->
        <<ps[roster[i]].origin, ps[roster[i]].destination, ps[roster[i]].starttime>>]

Reversed(s) == [i \in 1..Len(s) |-> s[Len(s) + 1 - i]]

(* C12: City.remove_wagon on a train of more than one wagon succeeds,     *)
(* lowers the capacity by one wagon and moves the passengers beyond the   *)
(* new capacity, last boarded first, to the queue of the train's station; *)
(* on a train of one wagon it is refused and changes neither the train    *)
(* nor the pool of free wagons.                                           *)
ShrinkEvictsLastBoarded ==
    [][lastop'.op = "remove_wagon" =>
        LET t == lastop'.arg
            tr == trains[t]
            n == Len(tr.passengers)
            keep == IF n <= tr.capacity - WAGON_CAPACITY THEN n
                    ELSE tr.capacity - WAGON_CAPACITY
        IN IF Wagons(tr) > 1
           THEN /\ ~aborted'
                /\ lastop'.result = "True"
                /\ trains'[t].capacity = tr.capacity - WAGON_CAPACITY
                /\ Riders(passengers', trains'[t].passengers)
                      = Riders(passengers, SubSeq(tr.passengers, 1, keep))
                /\ n > keep =>
                      LET st == nodes[tr.station_node[2]].station + 1 IN
                      Riders(passengers', stations'[st].passengers)
                          = Riders(passengers, stations[st].passengers)
                              \o Reversed(Riders(passengers, SubSeq(tr.passengers, keep + 1, n)))
           ELSE /\ ~aborted'
                /\ lastop'.result = "False"
                /\ trains' = trains
                /\ free_wagons' = free_wagons]_vars

RECURSIVE ExtraWagons(_, _)
ExtraWagons(trs, t) ==
    IF t > Len(trs) THEN 0 ELSE (Wagons(trs[t]) - 1) + ExtraWagons(trs, t + 1)

(* C13: City.add_wagon succeeds only with a free wagon in the pool and a  *)
(* train below MAX_WAGONS; on success the train gains one wagon and the   *)
(* pool loses one, on failure neither changes; City.add_wagon and         *)
(* City.remove_wagon keep the sum of the free wagons and the wagons that  *)
(* the trains have beyond their first.                                    *)
ExtendTakesFromPool ==
    [][/\ lastop'.op = "add_wagon" =>
            LET tr == trains[lastop'.arg] IN
            /\ ~aborted'
            /\ lastop'.result \in {"True", "False"}
            /\ lastop'.result = "True" =>
                  /\ free_wagons >= 1
                  /\ Wagons(tr) < MAX_WAGONS
                  /\ trains'[lastop'.arg].capacity = tr.capacity + WAGON_CAPACITY
                  /\ free_wagons' = free_wagons - 1
            /\ lastop'.result = "False" =>
                  /\ trains' = trains
                  /\ free_wagons' = free_wagons
       /\ lastop'.op \in {"add_wagon", "remove_wagon"} =>
            free_wagons' + ExtraWagons(trains', 1) = free_wagons + ExtraWagons(trains, 1)]_vars

(* C14: every train has between 1 and MAX_WAGONS wagons, and its capacity *)
(* is its number of wagons times WAGON_CAPACITY.                          *)
WagonsWithinLimits ==
    \A t \in 1..Len(trains) :
        /\ trains[t].capacity = Wagons(trains[t]) * WAGON_CAPACITY
        /\ Wagons(trains[t]) >= 1
        /\ Wagons(trains[t]) <= MAX_WAGONS

(* A train of MAX_WAGONS wagons has been refused another wagon. *)
WagonsWithinLimitsWitness ==
    /\ ~aborted
    /\ lastop.op = "Train.add_wagon"
    /\ lastop.result = "False"
    /\ Wagons(trains[lastop.arg]) = MAX_WAGONS

---------------------------------------------------------------------------
(* The city's operations on trains and lines: lines are added, stations   *)
(* are appended to them in the order of their idx, a train is added (on a *)
(* line or not), assigned (Train.set_line), moved and removed, and lines  *)
(* are cleared.  A train or line argument one past the registry is an     *)
(* object that is not in the registry.                                    *)
LineIds == 1..Len(lines)
TrainIds == 1..Len(trains)
Placements == LineIds \X (StationIds \cup {NoStation}) \X {FOREWARD, BACKWARD}

CmdNext ==
    \/ AddStation(CmdStations)
    \/ /\ Len(lines) < CmdLines
       /\ CityAddLine
    \/ \E l \in LineIds :
          /\ Len(lines[l].station_nodes) < Len(stations)
          /\ CityAddStationToLine(l, Len(lines[l].station_nodes), -1)
    \/ /\ Len(trains) < CmdTrains
       /\ \/ CityAddTrain(NoLine, NoStation, FOREWARD)
          \/ \E x \in Placements : CityAddTrain(x[1], x[2], x[3])
    \/ \E t \in TrainIds, x \in Placements : TrainSetLine(t, x[1], x[2], x[3])
    \/ \E t \in 1..(Len(trains) + 1) : CityRemoveTrain(t)
    \/ \E t \in 1..(Len(trains) + 1), x \in Placements : CityMoveTrain(t, x[1], x[2], x[3])
    \/ \E l \in 1..(Len(lines) + 1) : CityClearLine(l)

SpecCmd == Init /\ [][CmdNext]_vars

(* C15: City.remove_train on a train of the registry completes; the       *)
(* train's passengers are then at the end of the queue of the train's     *)
(* station and off the train, the train's line is None, and the train is  *)
(* still in the registry.                                                 *)
RemoveTrainDetaches ==
    [][(lastop'.op = "remove_train" /\ lastop'.arg \in TrainIds) =>
        LET t == lastop'.arg
            tr == trains[t]
        IN /\ ~aborted'
           /\ Len(trains') = Len(trains)
           /\ trains'[t].line = NoLine
           /\ trains'[t].passengers = <<>>
           /\ IsNode(tr.station_node) =>
                 LET st == nodes[tr.station_node[2]].station + 1 IN
                 Riders(passengers', stations'[st].passengers)
                     = Riders(passengers, stations[st].passengers)
                         \o Riders(passengers, tr.passengers)]_vars

(* The train t put at node on line with direction, AT_STATION *)
Assigned(tr, line, node, direction) ==
    [tr EXCEPT !.station_node = node, !.state = AT_STATION,
               !.line = line, !.direction = direction]

(* C16: Train.set_line on a line with stations: without a station the     *)
(* train is put at the line's first node, with a station of the line at   *)
(* that station's node, in both cases AT_STATION with the given           *)
(* direction; with a station that is not on the line the call fails and   *)
(* the train is unchanged.                                                *)
SetLinePlacesTrain ==
    [][(lastop'.op = "Train.set_line" /\ lines[lastop'.arg[2]].station_nodes # <<>>) =>
        LET t == lastop'.arg[1]
            l == lastop'.arg[2]
            station == lastop'.arg[3]
            direction == lastop'.arg[4]
            first == NodeRef(lines[l].station_nodes[1])
        IN /\ ~aborted'
           /\ IF station = NoStation
              THEN trains'[t] = Assigned(trains[t], l, first, direction)
              ELSE IF find_node(City, l, station) # None
              THEN trains'[t] = Assigned(trains[t], l, find_node(City, l, station), direction)
              ELSE /\ lastop'.result = "False"
                   /\ trains' = trains]_vars

(* C17: City.move_train on a train of the registry puts the train on the  *)
(* requested line at the requested station with the requested direction,  *)
(* AT_STATION, with its passengers still aboard, and returns True; on a   *)
(* train that is not in the registry it returns False and changes nothing.*)
MoveTrainReassigns ==
    [][lastop'.op = "move_train" =>
        LET t == lastop'.arg[1]
            l == lastop'.arg[2]
            station == lastop'.arg[3]
            direction == lastop'.arg[4]
        IN /\ ~aborted'
           /\ IF t \in TrainIds
              THEN (station # NoStation /\ find_node(City, l, station) # None) =>
                      /\ lastop'.result = "True"
                      /\ trains'[t] = Assigned(trains[t], l, find_node(City, l, station), direction)
              ELSE /\ lastop'.result = "False"
                   /\ trains' = trains
                   /\ lines' = lines]_vars

(* C18: City.clear_line on a line of the registry leaves the line without *)
(* stations and without trains, every train that was on it with line      *)
(* None, and the line in the registry with its color.                     *)
ClearLineEmptiesLine ==
    [][(lastop'.op = "clear_line" /\ lastop'.arg \in LineIds) =>
        LET l == lastop'.arg IN
        /\ ~aborted'
        /\ Len(lines') = Len(lines)
        /\ lines'[l].color = lines[l].color
        /\ lines'[l].station_nodes = <<>>
        /\ Len(trains') = Len(trains)
        /\ \A t \in TrainIds :
              /\ trains'[t].line # l
              /\ trains[t].line = l => trains'[t].line = NoLine]_vars

---------------------------------------------------------------------------
(* The registries at their limits: lines and trains are added until the   *)
(* city refuses them.                                                     *)
LimitNext ==
    \/ AddStation(LimitStations)
    \/ CityAddLine
    \/ CityAddTrain(NoLine, NoStation, FOREWARD)
    \/ \E l \in LineIds, s \in StationIds : CityAddTrain(l, s, FOREWARD)

SpecLimit == Init /\ [][LimitNext]_vars

(* C19: there are never more than max_trains trains or max_lines lines;   *)
(* add_train and add_line at the limit return None and leave the          *)
(* registries unchanged; add_line below the limit appends a line without  *)
(* stations and without trains.                                           *)
RegistriesWithinLimits ==
    [][/\ Len(trains') <= max_trains
       /\ Len(lines') <= max_lines
       /\ (lastop'.op = "add_train" /\ Len(trains) >= max_trains) =>
             /\ ~aborted'
             /\ lastop'.result = "None"
             /\ trains' = trains
             /\ lines' = lines
       /\ (lastop'.op = "add_line" /\ Len(lines) >= max_lines) =>
             /\ ~aborted'
             /\ lastop'.result = "None"
             /\ trains' = trains
             /\ lines' = lines
       /\ (lastop'.op = "add_line" /\ Len(lines) < max_lines) =>
             /\ ~aborted'
             /\ lastop'.result = "Line"
             /\ Len(lines') = Len(lines) + 1
             /\ SubSeq(lines', 1, Len(lines)) = lines
             /\ lines'[Len(lines')].station_nodes = <<>>
             /\ \A t \in 1..Len(trains') : trains'[t].line # Len(lines')]_vars

(* Both registries are full and the city has refused another train. *)
RegistriesWithinLimitsWitness ==
    /\ ~aborted
    /\ Len(lines) = max_lines
    /\ Len(trains) = max_trains
    /\ lastop.op = "add_train"
    /\ lastop.result = "None"

---------------------------------------------------------------------------
(* Stations inserted on a line at every position from below the accepted  *)
(* range to above it.                                                     *)
InsertNext ==
    \/ AddStation(InsertStations)
    \/ /\ Len(lines) < InsertLines
       /\ CityAddLine
    \/ \E l \in LineIds, s \in StationIds :
          \E position \in (-3)..(Len(lines[l].station_nodes) + 1) :
             CityAddStationToLine(l, s, position)

SpecInsert == Init /\ [][InsertNext]_vars

(* C20: add_station_to_line(line, station, position): on an empty line    *)
(* the station becomes the line's only station for any position; a        *)
(* station already on the line, or a position that is neither in          *)
(* 0..length nor -1, gives False with the line unchanged and without an   *)
(* exception; otherwise the new station sequence is the old one with the  *)
(* station at index position (at the end for -1).                         *)
InsertAtPosition ==
    [][lastop'.op = "add_station_to_line" =>
        LET l == lastop'.arg[1]
            station == lastop'.arg[2]
            position == lastop'.arg[3]
            old == StationIdxs(City, l)
            new == [i \in 1..Len(lines'[l].station_nodes) |->
                       nodes'[lines'[l].station_nodes[i]].station]
            n == Len(old)
        IN /\ ~aborted'
           /\ IF n = 0
              THEN lastop'.result = "True" /\ new = <<station>>
              ELSE IF Contains(old, station) \/ (position \notin 0..n /\ position # -1)
              THEN lastop'.result = "False" /\ new = old
              ELSE /\ lastop'.result = "True"
                   /\ new = ListInsert(old, (IF position = -1 THEN n ELSE position) + 1,
                                       station)]_vars

---------------------------------------------------------------------------
(* Stations appended to a line in any order and removed from it, on open  *)
(* lines and on lines whose ends make_circular has linked.  A station is  *)
(* appended while the heap holds fewer than RemoveNodes nodes: a removed  *)
(* node stays in the heap as long as a link still reaches it.  The ends   *)
(* are linked while no station carries a link left by an earlier removal  *)
(* from a linked line.                                                    *)
RemoveNext ==
    \/ AddStation(RemoveStations)
    \/ /\ Len(lines) < RemoveLines
       /\ CityAddLine
    \/ /\ Len(nodes) < RemoveNodes
       /\ \E l \in LineIds, s \in StationIds : CityAddStationToLine(l, s, -1)
    \/ \E l \in LineIds, s \in StationIds : CityRemoveStationFromLine(l, s)
    \/ /\ \A i \in 1..Len(stations) : stations[i] = NewStation
       /\ \E l \in LineIds : MakeCircular(l)
    \/ \E l \in LineIds : BreakCircular(l)

SpecRemove == Init /\ [][RemoveNext]_vars

(* A link as seen from outside the heap: the station of the node it       *)
(* points to, or the reference itself when it is not a node.              *)
LinkView(c, ref) == IF IsNode(ref) THEN <<"Node", c.nodes[ref[2]].station>> ELSE ref

(* The previous and next link of each node of a line, in line order *)
LineLinks(c, l) ==
    [i \in 1..Len(c.lines[l].station_nodes) |->
        LET node == c.nodes[c.lines[l].station_nodes[i]] IN
        <<LinkView(c, node.previous_node), LinkView(c, node.next_node)>>]

(* C21: remove_station_from_line with a station that is not on the line   *)
(* returns False and leaves the line's sequence and links as they were;   *)
(* with a station of the line it returns True, the sequence is the old    *)
(* one without the station, the nodes on both sides of the removed node   *)
(* point to each other, and on a line with open ends the new first node   *)
(* has no previous node and the new last node has no next node.           *)
RemoveUnlinksStation ==
    [][lastop'.op = "remove_station_from_line" =>
        LET l == lastop'.arg[1]
            station == lastop'.arg[2]
            old == StationIdxs(City, l)
            k == IndexOf(old, station)
            sn == lines'[l].station_nodes
            new == [i \in 1..Len(sn) |-> nodes'[sn[i]].station]
        IN /\ ~aborted'
           /\ IF ~Contains(old, station)
              THEN /\ lastop'.result = "False"
                   /\ new = old
                   /\ [i \in 1..Len(sn) |->
                          <<LinkView([nodes |-> nodes'], nodes'[sn[i]].previous_node),
                            LinkView([nodes |-> nodes'], nodes'[sn[i]].next_node)>>]
                        = LineLinks(City, l)
              ELSE /\ lastop'.result = "True"
                   /\ new = SubSeq(old, 1, k - 1) \o SubSeq(old, k + 1, Len(old))
                   /\ (1 < k /\ k < Len(old)) =>
                         /\ nodes'[sn[k - 1]].next_node = NodeRef(sn[k])
                         /\ nodes'[sn[k]].previous_node = NodeRef(sn[k - 1])
                   /\ (OpenLine(City, l) /\ sn # <<>>) =>
                         /\ nodes'[sn[1]].previous_node = None
                         /\ nodes'[sn[Len(sn)]].next_node = None]_vars

(* A station has been removed from a line of three stations with open     *)
(* ends, which now holds the other two.                                   *)
RemoveUnlinksStationWitness ==
    /\ ~aborted
    /\ lastop.op = "remove_station_from_line"
    /\ lastop.result = "True"
    /\ Len(stations) = 3
    /\ Len(lines[1].station_nodes) = 2
    /\ OpenLine(City, 1)

---------------------------------------------------------------------------
(* The operations that can be refused: a station moved within a line to   *)
(* any index, a wagon added to and removed from a train by the city.      *)
(* Train.add_wagon gives the train its second wagon.                      *)
FailNext ==
    \/ AddStation(FailStations)
    \/ /\ Len(lines) < FailLines
       /\ CityAddLine
    \/ \E l \in LineIds, s \in StationIds : CityAddStationToLine(l, s, -1)
    \/ /\ Len(trains) < FailTrains
       /\ CityAddTrain(NoLine, NoStation, FOREWARD)
    \/ \E t \in TrainIds : TrainAddWagon(t, FailWagons)
    \/ \E l \in LineIds, s \in StationIds :
          \E index \in (-3)..(Len(lines[l].station_nodes) + 1) :
             CityMoveStationInLine(l, s, index)
    \/ \E t \in TrainIds : CityAddWagon(t)
    \/ \E t \in TrainIds : CityRemoveWagon(t)

SpecFail == Init /\ [][FailNext]_vars

(* C22: a move_station_in_line, add_wagon or remove_wagon of the city     *)
(* that does not return True leaves the lines with their station          *)
(* sequences and links, the trains with their capacities and the wagon    *)
(* pool as they were.                                                     *)
FailedCommandChangesNothing ==
    [][(lastop'.op \in {"move_station_in_line", "add_wagon", "remove_wagon"}
        /\ lastop'.result # "True") =>
          /\ lines' = lines
          /\ nodes' = nodes
          /\ trains' = trains
          /\ free_wagons' = free_wagons]_vars

---------------------------------------------------------------------------
(* Command batches in which a command names a line, station or train that *)
(* does not exist, between commands that are valid: single valid commands *)
(* build the city, batches of BatchLen commands put an unresolvable       *)
(* command in the middle.                                                 *)
ValidCommands ==
    {LineAdd : x \in {1} \cap 1..(BatchLines - Len(lines))}
    \cup {StationAdd(s, col, Absent) : s \in StationIds, col \in Colors}
    \cup {StationRemove(s, col) : s \in StationIds, col \in Colors}

(* the first line's color: a batch that begins with Line+Add may use it *)
FirstColor == NewLine(0).color

UnresolvedCommands ==
    {StationAdd(0, NoSuchId, Absent),
     TrainAdd(NoSuchId, 0, FOREWARD),
     Command("train", "remove", NoSuchId, Absent, Absent, Absent, Absent)}
    \cup {StationRemove(NoSuchId, col) : col \in Colors}

BatchNext ==
    \/ AddStation(BatchStations)
    \/ \E a \in ValidCommands : ProcessBatch(<<a>>)
    \/ \E a \in ValidCommands, x \in UnresolvedCommands, s \in StationIds :
          ProcessBatch(<<a, x, StationAdd(s, FirstColor, Absent)>>)

SpecBatch == Init /\ [][BatchNext]_vars

(* The commands of a batch that _parse_action accepts, each judged in the *)
(* city the commands before it have made.                                 *)
RECURSIVE Accepted(_, _)
Accepted(c, batch) ==
    IF batch = <<>> THEN <<>>
    ELSE IF ~parse_ok(c, Head(batch)) THEN Accepted(c, Tail(batch))
    ELSE <<Head(batch)>> \o Accepted(apply_action(c, Head(batch)).c, Tail(batch))

(* What each command of the batch returned, the rejected ones left out *)
RECURSIVE AcceptedResults(_, _, _)
AcceptedResults(c, batch, results) ==
    IF batch = <<>> THEN <<>>
    ELSE IF ~parse_ok(c, Head(batch))
    THEN AcceptedResults(c, Tail(batch), Tail(results))
    ELSE <<Head(results)>>
         \o AcceptedResults(apply_action(c, Head(batch)).c, Tail(batch), Tail(results))

(* C23: a batch in which a command names a line, station or train that    *)
(* does not exist completes; that command is answered "Invalid action",   *)
(* and the city and the other commands' results are those of the batch    *)
(* without it.                                                            *)
UnresolvedCommandRejectedAlone ==
    [][lastop'.op = "process_batch" =>
        LET batch == lastop'.arg
            kept == process_user_actions(City, Accepted(City, batch))
            c == Collect(kept.c)
        IN /\ ~aborted'
           /\ Len(lastop'.result) = Len(batch)
           /\ \A k \in 1..Len(batch) :
                 (batch[k] \in UnresolvedCommands) => lastop'.result[k] = "Invalid action"
           /\ AcceptedResults(City, batch, lastop'.result) = kept.r
           /\ stations' = c.stations
           /\ lines' = c.lines
           /\ nodes' = c.nodes
           /\ trains' = c.trains
           /\ distmap' = c.distmap
           /\ navmap' = c.navmap]_vars

(* A batch whose second command named a line that does not exist has      *)
(* added a line before it and put a station on that line after it.        *)
UnresolvedCommandRejectedAloneWitness ==
    /\ ~aborted
    /\ lastop.op = "process_batch"
    /\ Len(lastop.arg) = BatchLen
    /\ lastop.arg[2].line = NoSuchId
    /\ lastop.result = <<"Line", "Invalid action", "True">>
    /\ Len(lines) = 1
    /\ Len(lines[1].station_nodes) = 1

---------------------------------------------------------------------------
(* Steady-state operation: every legal combination of object type and     *)
(* action as a command on objects that exist, and ticks.  A station is    *)
(* put on a line while the heap holds fewer than SteadyNodes nodes (a     *)
(* train keeps the node of a removed station).                            *)
TrainCommand(action, t) == Command("train", action, t, Absent, Absent, Absent, Absent)

SteadyBatches ==
    {<<LineAdd>> : x \in {1} \cap 1..(SteadyLines - Len(lines))}
    \cup {<<Command("line", "remove", col, Absent, Absent, Absent, Absent)>> : col \in Colors}
    \cup {<<StationAdd(s, col, Absent)>> :
            s \in StationIds, col \in {k \in Colors : Len(nodes) < SteadyNodes}}
    \cup {<<StationRemove(s, col)>> : s \in StationIds, col \in Colors}
    \cup {<<Command("station", "move", s, Absent, col, Absent, 0)>> :
            s \in StationIds, col \in Colors}
    \cup {<<TrainAdd(col, s, d)>> :
            s \in StationIds, col \in Colors,
            d \in {k \in {-1, 1} : Len(trains) < SteadyTrains}}
    \cup {<<Command("train", "add", Absent, Absent, Absent, Absent, Absent)>> :
            x \in {1} \cap 1..(SteadyTrains - Len(trains))}
    \cup {<<TrainCommand(action, t - 1)>> :
            action \in {"remove", "extend", "shrink"}, t \in TrainIds}
    \cup {<<Command("train", "move", t - 1, s, col, 1, Absent)>> :
            t \in TrainIds, s \in StationIds, col \in Colors}

SteadyNext ==
    \/ AddStation(SteadyStations)
    \/ \E batch \in SteadyBatches : ProcessUserActions(batch)
    \/ SimulateStep(NoSpawn, SteadyTicks)

SpecSteady == Init /\ [][SteadyNext]_vars

(* C24: no command on existing objects and no tick after it ends in an    *)
(* exception.                                                             *)
SimulationNeverAborts == ~aborted

---------------------------------------------------------------------------
(* Simulation.run: initialize_simulation adds the first stations, then    *)
(* the loop alternates the user's commands (a batch, or the empty string) *)
(* and ticks.                                                             *)
LoopBatches ==
    {<<>>}
    \cup {<<LineAdd>> : x \in {1} \cap 1..(LoopLines - Len(lines))}
    \cup {<<StationAdd(s, col, Absent)>> :
            s \in StationIds, col \in {k \in Colors : Len(nodes) < LoopNodes}}
    \cup {<<StationRemove(s, col)>> : s \in StationIds, col \in Colors}
    \cup {<<TrainAdd(col, s, d)>> :
            s \in StationIds, col \in Colors, d \in {k \in {-1, 1} : Len(trains) < LoopTrains}}

LoopNext ==
    \/ AddStation(LoopStations)
    \/ /\ Len(stations) = LoopStations
       /\ \E batch \in LoopBatches : ProcessUserActions(batch)
    \/ /\ Len(stations) = LoopStations
       /\ ProcessNoActions
    \/ /\ Len(stations) = LoopStations
       /\ SimulateStep(NoSpawn, LoopTicks)

SpecLoop == Init /\ [][LoopNext]_vars

(* C25: when a tick moves the trains (after the station the tick itself   *)
(* may add), the stored distmap and navmap are the ones _update_navmap    *)
(* builds from the city as it is.                                         *)
TablesCurrentAtTick ==
    [][lastop'.op = "simulate_step" =>
        LET c0 == IF time > 0 /\ time % NEW_STATION_INTERVAL = 0
                  THEN City_add_station(City) ELSE City
            fresh == update_navmap(c0)
        IN /\ c0.distmap = fresh.distmap
           /\ c0.navmap = fresh.navmap]_vars

(* A tick has run on a city whose line joins two stations, after a tick   *)
(* before it.                                                             *)
TablesCurrentAtTickWitness ==
    /\ ~aborted
    /\ lastop.op = "simulate_step"
    /\ time = LoopTicks
    /\ \E l \in LineIds : Len(lines[l].station_nodes) >= 2
    /\ \E i, j \in StationIds : distmap[i, j] = 1

---------------------------------------------------------------------------
(* A scarce seat: one line over the stations in the order of their idx,   *)
(* one train added once the line is complete, and ticks in which one      *)
(* station other than the last spawns one passenger or SeatBurst          *)
(* passengers for the last station.                                       *)
SeatBatches ==
    {<<LineAdd>> : x \in {1} \cap 1..(SeatLines - Len(lines))}
    \cup {<<StationAdd(Len(lines[l].station_nodes), lines[l].color, Absent)>> :
            l \in {k \in LineIds : Len(lines[k].station_nodes) < Len(stations)}}
    \cup {<<TrainAdd(lines[l].color, s, d)>> :
            s \in StationIds,
            l \in {k \in LineIds : Len(lines[k].station_nodes) = SeatStations},
            d \in {k \in {-1, 1} : Len(trains) < SeatTrains}}

SeatSpawns ==
    {NoSpawn}
    \cup {[NoSpawn EXCEPT ![x[1] + 1] = [i \in 1..x[2] |-> Len(stations) - 1]] :
            x \in {y \in StationIds \X {1, SeatBurst} :
                     y[1] # Len(stations) - 1 /\ Len(passengers) + y[2] <= SeatPassengers}}

SeatNext ==
    \/ AddStation(SeatStations)
    \/ /\ time = 0
       /\ \E batch \in SeatBatches : ProcessUserActions(batch)
    \/ /\ Len(trains) = SeatTrains
       /\ \E spawn \in SeatSpawns : SimulateStep(spawn, SeatTicks)

SpecSeat == Init /\ [][SeatNext]_vars

(* The passengers waiting at station s whose route options to their       *)
(* destination hold the (line, direction) of train t                       *)
Competitors(c, t, s) ==
    {p \in {c.stations[s + 1].passengers[i] : i \in 1..Len(c.stations[s + 1].passengers)} :
        <<c.lines[c.trains[t].line].color, c.trains[t].direction>>
            \in c.navmap[s, c.passengers[p].destination]}

---------------------------------------------------------------------------
(* Arrivals: a line over the stations in the order of their idx, one      *)
(* train, and ticks in which one station spawns one passenger or a burst. *)
ArriveBatches ==
    {<<LineAdd>> : x \in {1} \cap 1..(ArriveLines - Len(lines))}
    \cup {<<StationAdd(Len(lines[l].station_nodes), lines[l].color, Absent)>> :
            l \in {k \in LineIds : Len(lines[k].station_nodes) < Len(stations)}}
    \cup {<<TrainAdd(col, s, d)>> :
            s \in StationIds, col \in Colors, d \in {k \in {-1, 1} : Len(trains) < ArriveTrains}}

ArriveSpawns ==
    {NoSpawn}
    \cup {[NoSpawn EXCEPT ![x[1] + 1] = [i \in 1..x[3] |-> x[2]]] :
            x \in {y \in StationIds \X StationIds \X {1, ArriveBurst} :
                     y[1] # y[2] /\ Len(passengers) + y[3] <= ArrivePassengers}}

ArriveNext ==
    \/ AddStation(ArriveStations)
    \/ /\ time = 0
       /\ \E batch \in ArriveBatches : ProcessUserActions(batch)
    \/ \E spawn \in ArriveSpawns : SimulateStepDrawing(spawn, ArriveTicks)

SpecArrive == Init /\ [][ArriveNext]_vars

(* How many of the passengers ps started at time st *)
StartedAt(ps, st) == Cardinality({p \in DOMAIN ps : ps[p].starttime = st})

(* How many passengers with origin, destination and start time x ps holds *)
Alike(ps, x) ==
    Cardinality({p \in DOMAIN ps : <<ps[p].origin, ps[p].destination, ps[p].starttime>> = x})

(* How many passengers from origin to destination the draws of a tick spawn *)
Drawn(spawn, origin, destination) ==
    Cardinality({i \in 1..Len(spawn[origin + 1]) : spawn[origin + 1][i] = destination})

RECURSIVE DrawnTotal(_, _)
DrawnTotal(spawn, s) ==
    IF s > Len(spawn) THEN 0 ELSE Len(spawn[s]) + DrawnTotal(spawn, s + 1)

(* C27: over a tick that completes, the active passengers and the         *)
(* recorded arrivals together grow by the passengers spawned; the new     *)
(* arrival entries are, one for each passenger that is no longer active,  *)
(* the tick's time minus that passenger's start time; and no passenger    *)
(* still active is positioned at, or queued at, its destination station.  *)
ArrivalsAccountForPassengers ==
    [][(lastop'.op = "simulate_step_drawing" /\ ~aborted') =>
        LET spawn == lastop'.arg
            old == Len(arrived_passengers)
            fresh == SubSeq(arrived_passengers', old + 1, Len(arrived_passengers'))
            Gone(st) == StartedAt(passengers, st)
                        + (IF st = time THEN DrawnTotal(spawn, 1) ELSE 0)
                        - StartedAt(passengers', st)
        IN /\ Len(passengers') + Len(arrived_passengers')
                = Len(passengers) + old + DrawnTotal(spawn, 1)
           /\ SubSeq(arrived_passengers', 1, old) = arrived_passengers
           /\ \A x \in StationIds \X StationIds \X (0..time) :
                 Alike(passengers', x)
                    <= Alike(passengers, x)
                       + (IF x[3] = time THEN Drawn(spawn, x[1], x[2]) ELSE 0)
           /\ \A st \in 0..time :
                 Cardinality({i \in 1..Len(fresh) : fresh[i] = time - st}) = Gone(st)
           /\ \A p \in DOMAIN passengers' :
                 /\ passengers'[p].position # StationRef(passengers'[p].destination)
                 /\ ~Contains(stations'[passengers'[p].destination + 1].passengers, p)]_vars

(* A passenger has arrived two ticks after it started, and another        *)
(* passenger is still on its way.                                         *)
ArrivalsAccountForPassengersWitness ==
    /\ ~aborted
    /\ lastop.op = "simulate_step_drawing"
    /\ Len(arrived_passengers) >= 1
    /\ arrived_passengers[Len(arrived_passengers)] = 2
    /\ Len(passengers) >= 1

---------------------------------------------------------------------------
(* A fixed topology and repeated ticks: before the first tick one line is *)
(* laid over the stations in any order and one train is put on it; then   *)
(* ticks follow, in which a station may spawn a passenger while fewer     *)
(* than LivePassengers are under way.                                     *)
LiveBatches ==
    {<<LineAdd>> : x \in {1} \cap 1..(LiveLines - Len(lines))}
    \cup {<<StationAdd(s, col, Absent)>> : s \in StationIds, col \in Colors}
    \cup {<<TrainAdd(col, s, d)>> :
            s \in StationIds, col \in Colors, d \in {k \in {-1, 1} : Len(trains) < LiveTrains}}

LiveSpawns ==
    {NoSpawn}
    \cup {[NoSpawn EXCEPT ![x[1] + 1] = <<x[2]>>] :
            x \in {y \in StationIds \X StationIds :
                     y[1] # y[2] /\ Len(passengers) < LivePassengers}}

LiveNext ==
    \/ AddStation(LiveStations)
    \/ /\ time = 0
       /\ \E batch \in LiveBatches : ProcessUserActions(batch)
    \/ /\ Len(trains) = LiveTrains
       /\ \E spawn \in LiveSpawns : SimulateStep(spawn, LiveTicks)

SpecLive == Init /\ [][LiveNext]_vars

(* C28: with the topology fixed and a train running on the line, a        *)
(* passenger whose route options to its destination are not empty is no   *)
(* longer under way LivePatience ticks after it started.  On a line of    *)
(* LiveStations stations the train is back at every station after         *)
(* 4 * (LiveStations - 1) ticks and the ride takes at most half of that,  *)
(* and every round of the train meets the passenger in the same way: a    *)
(* passenger still under way after LivePatience ticks never arrives.      *)
PassengerArrives ==
    (~aborted /\ \E t \in TrainIds : trains[t].line # NoLine) =>
        \A p \in DOMAIN passengers :
           navigate_step_to(City, p, passengers[p].destination) # {}
              => time - passengers[p].starttime <= LivePatience

---------------------------------------------------------------------------
(* Passengers created with the random draws given: by a station, and by   *)
(* the constructor without a destination.                                 *)
DrawSeqs ==
    UNION {[1..n -> StationIds] : n \in 1..SpawnDraws}

SpawnNext ==
    \/ AddStation(SpawnStations)
    \/ /\ Len(passengers) < SpawnPassengers
       /\ \E s \in StationIds, draws \in DrawSeqs : SpawnPassenger(s, draws)
    \/ \E origin \in StationIds, draws \in DrawSeqs : NewPassenger(origin, draws)

SpecSpawn == Init /\ [][SpawnNext]_vars

(* C29: the passenger a station has spawned, and the passenger the        *)
(* constructor has made without a destination given, has a destination    *)
(* that is not its origin.                                                *)
DestinationDiffersFromOrigin ==
    /\ \A p \in DOMAIN passengers : passengers[p].destination # passengers[p].origin
    /\ lastop.op \in {"spawn_passengers", "Passenger"} => lastop.result[2] # lastop.result[1]

---------------------------------------------------------------------------
(* The loop of Simulation.run after initialize_simulation, with the       *)
(* answers of usr_func and the passengers spawned chosen freely.          *)
RunBatches ==
    {<<>>, <<LineAdd>>,
     <<LineAdd, StationAdd(0, FirstColor, Absent), StationAdd(1, FirstColor, Absent),
       TrainAdd(FirstColor, 0, FOREWARD)>>}

RunSpawns ==
    {NoSpawn}
    \cup {[NoSpawn EXCEPT ![x[1] + 1] = <<x[2]>>] :
            x \in {y \in StationIds \X StationIds :
                     y[1] # y[2] /\ Len(passengers) < RunPassengers}}

RunNext ==
    \/ AddStation(RunStations)
    \/ /\ Len(stations) = RunStations
       /\ \E batch \in RunBatches, spawn \in RunSpawns : RunPass(batch, spawn, RunIters)
    \/ /\ Len(stations) = RunStations
       /\ \E spawn \in RunSpawns : RunPassNoActions(spawn, RunIters)

SpecRun == Init /\ [][RunNext]_vars

Active ==
    UNION {{stations[i].passengers[k] : k \in 1..Len(stations[i].passengers)} :
             i \in 1..Len(stations)}
    \cup UNION {{trains[t].passengers[k] : k \in 1..Len(trains[t].passengers)} :
                  t \in 1..Len(trains)}

MayContinue ==
    /\ time < RunIters
    /\ \A p \in Active : time - passengers[p].starttime < MAX_WAITING_TIME

---------------------------------------------------------------------------
(* Rebuilds of the navigation map between changes of the topology that    *)
(* do not rebuild it themselves (City.add_line, City.add_station_to_line). *)
RebuildNext ==
    \/ AddStation(RebuildStations)
    \/ /\ Len(lines) < RebuildLines
       /\ CityAddLine
    \/ \E l \in LineIds, s \in StationIds, i \in {-1, 0} : CityAddStationToLine(l, s, i)
    \/ UpdateNavmap

SpecRebuild == Init /\ [][RebuildNext]_vars

(* C31: a rebuild of the navigation map that directly follows a rebuild,  *)
(* with no change of stations, lines or trains in between, leaves the     *)
(* distance table and the route-option table as they were.                *)
RebuildIdempotent ==
    [][ (lastop'.op = "update_navmap" /\ lastop'.arg = 2)
           => (distmap' = distmap /\ navmap' = navmap) ]_vars

RebuildIdempotentWitness ==
    /\ lastop.op = "update_navmap"
    /\ lastop.arg = 2
    /\ \E p \in DOMAIN distmap : distmap[p] = 2 /\ navmap[p] # {}

---------------------------------------------------------------------------
(* What a train's station_node refers to, in terms that do not change     *)
(* when the nodes are renumbered.                                         *)
Whereabouts(c, ref) ==
    IF IsNode(ref) THEN <<"node", c.nodes[ref[2]].station>> ELSE ref

After == [City EXCEPT !.trains = trains', !.nodes = nodes']

(* C32: every move of a train that is on a line toggles its state; the    *)
(* move out of a station leaves station_node and direction as they were,  *)
(* and the move into a station sets them to what next_station returns for *)
(* the station_node and direction the train had.                          *)
MoveTogglesState ==
    [][\A t \in 1..Len(trains) :
        (lastop'.op = "Train.move" /\ lastop'.arg = t /\ trains[t].line # NoLine) =>
            /\ Len(trains') = Len(trains)
            /\ trains'[t].state = IF trains[t].state = AT_STATION
                                  THEN LEFT_STATION ELSE AT_STATION
            /\ trains[t].state = AT_STATION =>
                   /\ ~aborted'
                   /\ Whereabouts(After, trains'[t].station_node)
                         = Whereabouts(City, trains[t].station_node)
                   /\ trains'[t].direction = trains[t].direction
            /\ (trains[t].state = LEFT_STATION /\ ~aborted') =>
                   LET nxt == next_station(City, trains[t].line, trains[t].station_node,
                                           trains[t].direction) IN
                   /\ ~nxt.raised
                   /\ Whereabouts(After, trains'[t].station_node)
                         = Whereabouts(City, nxt.node)
                   /\ trains'[t].direction = nxt.direction]_vars

(* A train has moved into a station other than the one it had left and    *)
(* has turned there.                                                      *)
MoveTogglesStateWitness ==
    /\ ~aborted
    /\ lastop.op = "Train.move"
    /\ \E t \in 1..Len(trains) :
          /\ lastop.arg = t
          /\ trains[t].line # NoLine
          /\ trains[t].state = AT_STATION
          /\ TrainStation(City, t) = 1
          /\ trains[t].direction = -1

---------------------------------------------------------------------------
(* Ticks up to and past the first one that adds a station: a train put on *)
(* the line 0-1 before the first or the second tick, no passenger spawned *)
(* before TickQuiet.                                                      *)
Growing == time > 0 /\ time % NEW_STATION_INTERVAL = 0

TickSpawns ==
    LET n == Len(stations) + (IF Growing THEN 1 ELSE 0)
        none == [s \in 1..n |-> <<>>]
    IN {none}
       \cup {[none EXCEPT ![x[1] + 1] = <<x[2]>>] :
               x \in {y \in (0..(n - 1)) \X (0..(n - 1)) :
                        /\ y[1] # y[2]
                        /\ time >= TickQuiet
                        /\ Len(passengers) < TickPassengers}}

TickNext ==
    \/ AddStation(TickStations)
    \/ /\ time <= 1
       /\ Len(stations) = TickStations
       /\ Len(lines) = 0
       /\ \E s \in StationIds, d \in {FOREWARD, BACKWARD} :
             ProcessUserActions(<<LineAdd, StationAdd(0, FirstColor, Absent),
                                  StationAdd(1, FirstColor, Absent),
                                  TrainAdd(FirstColor, s, d)>>)
    \/ /\ Len(stations) >= TickStations
       /\ Len(trains) = TickTrains \/ time = 0
       /\ \E spawn \in TickSpawns : SimulateStep(spawn, TickTicks)

SpecTick == Init /\ [][TickNext]_vars

OnTrain(ps, roster) == {Riders(ps, roster)[i] : i \in 1..Len(roster)}

(* C33: a tick adds the station that is due, moves every train once,      *)
(* spawns, evaluates the passengers and then adds 1 to the time: who has  *)
(* boarded in the tick is on a train that is AT_STATION after its move,   *)
(* and a passenger spawned in the tick does not wait at a station where a *)
(* train it could board stands with a free seat.                          *)
TickOrder ==
    [][(lastop'.op = "simulate_step" /\ ~aborted') =>
        /\ time' = time + 1
        /\ Len(stations') = Len(stations) + (IF Growing THEN 1 ELSE 0)
        /\ Len(trains') = Len(trains)
        /\ \A t \in TrainIds :
              /\ trains'[t].state = IF trains[t].state = AT_STATION
                                    THEN LEFT_STATION ELSE AT_STATION
              /\ OnTrain(passengers', trains'[t].passengers)
                    \ OnTrain(passengers, trains[t].passengers) # {}
                      => trains'[t].state = AT_STATION
        /\ \A p \in DOMAIN passengers' :
              (passengers'[p].starttime = time /\ IsStation(passengers'[p].position)) =>
                 ~ \E t \in TrainIds :
                      /\ trains'[t].state = AT_STATION
                      /\ IsNode(trains'[t].station_node)
                      /\ nodes'[trains'[t].station_node[2]].station
                            = passengers'[p].position[2]
                      /\ Len(trains'[t].passengers) < trains'[t].capacity
                      /\ <<lines'[trains'[t].line].color, trains'[t].direction>>
                            \in navmap'[passengers'[p].position[2],
                                        passengers'[p].destination] ]_vars

(* The tick that added a station has spawned a passenger at that station, *)
(* and a passenger of the tick before it is on the train that has left    *)
(* since: it boarded in the tick that spawned it.                         *)
TickOrderWitness ==
    /\ ~aborted
    /\ lastop.op = "simulate_step"
    /\ Len(stations) = TickStations + 1
    /\ \E p \in DOMAIN passengers :
          passengers[p].origin = TickStations /\ passengers[p].starttime = time - 1
    /\ \E p \in DOMAIN passengers :
          /\ IsTrain(passengers[p].position)
          /\ passengers[p].starttime = time - 2
          /\ trains[passengers[p].position[2] + 1].state = LEFT_STATION

---------------------------------------------------------------------------
(* Single evaluations of passengers: one line over the two stations, in   *)
(* either order, up to BoardTrains trains put on it and moved one by one, *)
(* passengers spawned one at a time or a wagon load at once; the wagon    *)
(* load is evaluated in one go, as by a tick.                             *)
BoardBatches ==
    {<<LineAdd, StationAdd(x[1], FirstColor, Absent), StationAdd(x[2], FirstColor, Absent)>> :
        x \in {y \in StationIds \X StationIds : y[1] # y[2] /\ Len(lines) = 0}}
    \cup {<<TrainAdd(col, x[1], x[2])>> :
            col \in Colors,
            x \in {y \in StationIds \X {FOREWARD, BACKWARD} : Len(trains) < BoardTrains}}

BoardNext ==
    \/ AddStation(BoardStations)
    \/ /\ Len(stations) = BoardStations
       /\ \E batch \in BoardBatches : ProcessUserActions(batch)
    \/ /\ Len(passengers) <= 1
       /\ \E t \in TrainIds : TrainMove(t)
    \/ \E x \in StationIds \X StationIds \X {1, BoardBurst} :
          /\ x[1] # x[2]
          /\ Len(trains) = BoardTrains
          /\ Len(passengers) + Len(arrived_passengers) \in {0, BoardPassengers - x[3]}
          /\ StationSpawn(x[1], [i \in 1..x[3] |-> x[2]])
    \/ /\ Len(passengers) # BoardBurst
       /\ \E p \in DOMAIN passengers : PassengerMove(p)
    \/ /\ Len(passengers) = BoardBurst
       /\ MoveAllPassengers

SpecBoard == Init /\ [][BoardNext]_vars

Roster(ps, holders, h) == Riders(ps, holders[h].passengers)

WithoutOne(seq, x) ==
    {SubSeq(seq, 1, i - 1) \o SubSeq(seq, i + 1, Len(seq)) :
        i \in {j \in 1..Len(seq) : seq[j] = x}}

(* The train t is one the passenger waiting at station s for destination  *)
(* d may board.                                                           *)
MayBoard(t, s, d) ==
    /\ trains[t].state = AT_STATION
    /\ IsNode(trains[t].station_node)
    /\ nodes[trains[t].station_node[2]].station = s
    /\ Len(trains[t].passengers) < trains[t].capacity
    /\ trains[t].line # NoLine
    /\ <<lines[trains[t].line].color, trains[t].direction>> \in navmap[s, d]

(* C34: an evaluation of a passenger who waits at a station puts it on    *)
(* the first train of the registry that is AT_STATION at that station,    *)
(* has a free seat and runs in a direction that is a route option to the  *)
(* destination, and on no other train; with no such train nobody boards.  *)
BoardsFirstFittingTrain ==
    [][(lastop'.op = "Passenger.move" /\ ~aborted') =>
        LET me == SubSeq(lastop'.arg, 1, 3)
            pos == lastop'.arg[4]
            s == pos[2]
            fit == {t \in TrainIds : MayBoard(t, s, me[2])}
            first == CHOOSE t \in fit : \A u \in fit : t <= u
            queue == Roster(passengers, stations, s + 1)
        IN IsStation(pos) =>
             /\ Len(trains') = Len(trains)
             /\ \A t \in TrainIds :
                   Roster(passengers', trains', t) =
                      IF fit # {} /\ t = first
                      THEN Append(Roster(passengers, trains, t), me)
                      ELSE Roster(passengers, trains, t)
             /\ fit # {} => Roster(passengers', stations', s + 1) \in WithoutOne(queue, me)
             /\ (fit = {} /\ s # me[2]) => Roster(passengers', stations', s + 1) = queue]_vars

(* A passenger has boarded the second train at a station where the first  *)
(* train stands full.                                                     *)
BoardsFirstFittingTrainWitness ==
    /\ ~aborted
    /\ lastop.op = "Passenger.move"
    /\ IsStation(lastop.arg[4])
    /\ Len(trains) = 2
    /\ trains[1].state = AT_STATION
    /\ trains[2].state = AT_STATION
    /\ TrainStation(City, 1) = lastop.arg[4][2]
    /\ TrainStation(City, 2) = lastop.arg[4][2]
    /\ Len(trains[1].passengers) = trains[1].capacity
    /\ trains[1].direction = trains[2].direction
    /\ Len(trains[2].passengers) = 1
    /\ Roster(passengers, trains, 2)[1] = SubSeq(lastop.arg, 1, 3)

---------------------------------------------------------------------------
(* A passenger and up to AlightTrains trains on one line over three       *)
(* stations, the stations put on the line in the order of their idx or    *)
(* with the first two exchanged.                                          *)
AlightBatches ==
    {<<LineAdd, StationAdd(x[1], FirstColor, Absent), StationAdd(x[2], FirstColor, Absent),
       StationAdd(x[3], FirstColor, Absent)>> :
        x \in {y \in {<<0, 1, 2>>, <<1, 0, 2>>} : Len(lines) = 0}}
    \cup {<<TrainAdd(col, x[1], x[2])>> :
            col \in Colors,
            x \in {y \in StationIds \X {FOREWARD, BACKWARD} : Len(trains) < AlightTrains}}

AlightNext ==
    \/ AddStation(AlightStations)
    \/ /\ Len(stations) = AlightStations
       /\ Len(passengers) = 0
       /\ \E batch \in AlightBatches : ProcessUserActions(batch)
    \/ \E t \in TrainIds : TrainMove(t)
    \/ \E x \in StationIds \X StationIds :
          /\ x[1] # x[2]
          /\ Len(trains) = AlightTrains
          /\ Len(passengers) + Len(arrived_passengers) < AlightPassengers
          /\ StationSpawn(x[1], <<x[2]>>)
    \/ \E p \in DOMAIN passengers : PassengerMove(p)

SpecAlight == Init /\ [][AlightNext]_vars

(* C35: an evaluation of a passenger who is on a train takes it off the   *)
(* train exactly when the train is AT_STATION and its line and direction  *)
(* are not a route option from the train's station to the destination;    *)
(* the passenger then joins the end of that station's queue, unless in    *)
(* the same evaluation it boards another train there or has arrived; it   *)
(* does not board the train it has left.                                  *)
LeavesTrainOffRoute ==
    [][(lastop'.op = "Passenger.move" /\ ~aborted') =>
        LET me == SubSeq(lastop'.arg, 1, 3)
            pos == lastop'.arg[4]
            t == pos[2] + 1
            st == TrainStation(City, t)
            leaves == /\ trains[t].state = AT_STATION
                      /\ <<lines[trains[t].line].color, trains[t].direction>>
                            \notin navmap[st, me[2]]
            fit == {u \in TrainIds \ {t} : MayBoard(u, st, me[2])}
            first == CHOOSE u \in fit : \A v \in fit : u <= v
            queue == Roster(passengers, stations, st + 1)
        IN IsTrain(pos) =>
             /\ Len(trains') = Len(trains)
             /\ Roster(passengers', trains', t) \in
                   IF leaves THEN WithoutOne(Roster(passengers, trains, t), me)
                   ELSE {Roster(passengers, trains, t)}
             /\ \A u \in TrainIds \ {t} :
                   Roster(passengers', trains', u) =
                      IF leaves /\ fit # {} /\ u = first
                      THEN Append(Roster(passengers, trains, u), me)
                      ELSE Roster(passengers, trains, u)
             /\ \A x \in StationIds :
                   Roster(passengers', stations', x + 1) =
                      IF leaves /\ fit = {} /\ x = st /\ st # me[2]
                      THEN Append(queue, me)
                      ELSE Roster(passengers, stations, x + 1)
             /\ Len(arrived_passengers') = Len(arrived_passengers)
                   + (IF leaves /\ fit = {} /\ st = me[2] THEN 1 ELSE 0)]_vars

(* The passenger has left a train at a station that is not its           *)
(* destination and has boarded the other train there.                    *)
LeavesTrainOffRouteWitness ==
    /\ ~aborted
    /\ lastop.op = "Passenger.move"
    /\ IsTrain(lastop.arg[4])
    /\ Len(passengers) = 1
    /\ \E p \in DOMAIN passengers :
          IsTrain(passengers[p].position) /\ passengers[p].position # lastop.arg[4]

---------------------------------------------------------------------------
(* Batches that open a line and go on with commands that name it: its     *)
(* stations, trains on it, and commands that are refused.                 *)
OrderCommands ==
    {StationAdd(s, FirstColor, Absent) : s \in StationIds}
    \cup {TrainAdd(FirstColor, s, d) : s \in StationIds, d \in {FOREWARD, BACKWARD}}
    \cup {StationAdd(0, NoSuchId, Absent)}

OrderNext ==
    \/ AddStation(OrderStations)
    \/ /\ Len(stations) = OrderStations
       /\ Len(lines) = 0
       /\ \E a \in OrderCommands, b \in OrderCommands : ProcessBatch(<<LineAdd, a, b>>)
    \/ /\ Len(lines) = 1
       /\ Len(trains) = 0
       /\ \E a \in OrderCommands : ProcessBatch(<<a>>)

SpecOrder == Init /\ [][OrderNext]_vars

(* The stations the Station+Add commands among the first k commands of a  *)
(* batch have named for the first line, each once, in the order of the    *)
(* batch.                                                                 *)
RECURSIVE Named(_, _)
Named(batch, k) ==
    IF k = 0 THEN <<>>
    ELSE LET before == Named(batch, k - 1)
             a == batch[k]
         IN IF /\ a.object_type = "station"
               /\ a.line = FirstColor
               /\ \A i \in 1..Len(before) : before[i] # a.object_id
            THEN Append(before, a.object_id) ELSE before

IsNamed(batch, k, s) == \E i \in 1..Len(Named(batch, k)) : Named(batch, k)[i] = s

Post == [City EXCEPT !.stations = stations', !.lines = lines', !.trains = trains',
                      !.nodes = nodes']

TrainAdds(batch) == SelectSeq([k \in 1..Len(batch) |-> k], LAMBDA k : batch[k].object_type = "train")

(* C36: the commands of a batch take effect one after another, each       *)
(* against the city as the commands before it have left it: after a batch *)
(* that begins with Line+Add on a city without lines, the line is there,  *)
(* it carries the stations the batch has added to it, a Train+Add is on   *)
(* the line exactly when its station had been added before it, and a      *)
(* command that is refused leaves the effect of the others in place.      *)
BatchAppliedInOrder ==
    [][(lastop'.op = "process_batch" /\ Len(lines) = 0 /\ lastop'.arg[1] = LineAdd) =>
        LET batch == lastop'.arg
            adds == TrainAdds(batch)
        IN /\ ~aborted'
           /\ Len(lines') = 1
           /\ lines'[1].color = FirstColor
           /\ StationIdxs(Post, 1) = Named(batch, Len(batch))
           /\ \A k \in 2..Len(batch) :
                 /\ batch[k].line = NoSuchId => lastop'.result[k] = "Invalid action"
                 /\ batch[k].object_type = "station" /\ batch[k].line = FirstColor =>
                       lastop'.result[k] =
                          IF IsNamed(batch, k - 1, batch[k].object_id) THEN "False" ELSE "True"
           /\ Len(trains') = Len(adds)
           /\ \A i \in 1..Len(adds) :
                 IF IsNamed(batch, adds[i] - 1, batch[adds[i]].station)
                 THEN /\ trains'[i].line = 1
                      /\ TrainStation(Post, i) = batch[adds[i]].station
                      /\ trains'[i].direction = batch[adds[i]].direction
                 ELSE trains'[i].line = NoLine]_vars

(* A batch has opened the line, put a station on it and a train at that   *)
(* station.                                                               *)
BatchAppliedInOrderWitness ==
    /\ ~aborted
    /\ lastop.op = "process_batch"
    /\ Len(lastop.arg) = 3
    /\ lastop.arg[1] = LineAdd
    /\ lastop.arg[2] = StationAdd(1, FirstColor, Absent)
    /\ lastop.arg[3] = TrainAdd(FirstColor, 1, BACKWARD)
    /\ Len(trains) = 1
    /\ trains[1].line = 1
    /\ TrainStation(City, 1) = 1

---------------------------------------------------------------------------
(* Stations put on a line at any position, allowed or not, and taken off  *)
(* it, on or not; the line is never made circular.                        *)
ListNext ==
    \/ AddStation(ListStations)
    \/ /\ Len(lines) < ListLines
       /\ CityAddLine
    \/ /\ Len(stations) = ListStations
       /\ \E l \in LineIds, s \in StationIds :
             \E position \in ((-3)..1) \cup {Len(lines[l].station_nodes) + 1} :
                CityAddStationToLine(l, s, position)
    \/ \E l \in LineIds, s \in StationIds : CityRemoveStationFromLine(l, s)

SpecList == Init /\ [][ListNext]_vars

(* C37: the nodes of a line that was never made circular form a doubly    *)
(* linked list in the order of station_nodes: each node is the previous   *)
(* node of its successor and the next node of its predecessor, the first  *)
(* has no previous and the last no next node, and no station is on the    *)
(* line twice.                                                            *)
LineWellFormed ==
    \A l \in LineIds :
       LET sn == lines[l].station_nodes
           n == Len(sn)
       IN /\ \A k \in 1..(n - 1) :
                /\ nodes[sn[k]].next_node = NodeRef(sn[k + 1])
                /\ nodes[sn[k + 1]].previous_node = NodeRef(sn[k])
          /\ n > 0 => /\ nodes[sn[1]].previous_node = None
                      /\ nodes[sn[n]].next_node = None
          /\ \A i \in 1..n, j \in 1..n :
                (i # j) => (sn[i] # sn[j] /\ nodes[sn[i]].station # nodes[sn[j]].station)

(* A station has been taken off a line of four stations, which leaves the *)
(* station that was put at its beginning first.                           *)
LineWellFormedWitness ==
    /\ ~aborted
    /\ lastop.op = "remove_station_from_line"
    /\ lastop.result = "True"
    /\ Len(lines) = 1
    /\ Len(lines[1].station_nodes) = 3
    /\ StationIdxs(City, 1) = <<3, 0, 1>>

(* C38: every train that is on a line has a station_node that is one of  *)
(* the nodes of that line, and a direction of 1 or -1.                    *)
TrainsOnTheirLines ==
    ~aborted =>
       \A t \in TrainIds :
          trains[t].line # NoLine =>
             /\ IsNode(trains[t].station_node)
             /\ Contains(lines[trains[t].line].station_nodes, trains[t].station_node[2])
             /\ trains[t].direction \in {FOREWARD, BACKWARD}

====
